---------------------------- MODULE Spec2Model ----------------------------
(***************************************************************************)
(* A model of the sqlx core: the connection pool (section 4.5 of the       *)
(* specification; pool/inner.rs is not among the sources, so the pool is   *)
(* modelled from the specification's acquisition, release and close        *)
(* algorithms), the `&Pool` executor (pool/executor.rs) and the MySQL      *)
(* connection phase (mysql/connection.rs: establish, make_auth_response,   *)
(* rsa_encrypt_with_nonce, ping), the query pipeline (query.rs,            *)
(* arguments.rs, executor.rs) and the value codecs (encode.rs,             *)
(* postgres/types).                                                        *)
(*                                                                         *)
(* Each subsystem has its own specification over the shared variables:     *)
(*   PoolSpec / FairPoolSpec   the pool and the `&Pool` executor           *)
(*   MySqlSpec                 connect, the handshake, the auth loop, ping *)
(*   ConnectSpec               connect over every ssl-mode and URL, ping,  *)
(*                             a cursor on the connection, close           *)
(*   QuerySpec                 query, bind, bind_all, Arguments            *)
(*   FetchSpec                 Map's fetch operations, Query::execute      *)
(*   CodecSpec                 Encode and Decode of bool and byte vectors  *)
(*   TypeIdSpec                Display of the MySQL type ids               *)
(* The variables of the other subsystems keep their initial values.        *)
(*                                                                         *)
(* The server is the environment: every packet the client receives is      *)
(* drawn from ServerPackets (PingReplies for a ping).  Socket reads and    *)
(* writes are taken to succeed, except the flush and the shutdown of       *)
(* close, which may each fail; what a packet holds decides every branch.   *)
(***************************************************************************)
EXTENDS Integers, Sequences, FiniteSets, TLC

(***************************************************************************)
(* Bounds of the model.                                                    *)
(***************************************************************************)
\* number of concurrent tasks that use the pool
NumTasks == 3
\* the pool option max_size
MaxSize == 1

\* packets the client receives after the server's Handshake, per connection
MaxRecv == 4
\* ping round trips per connection
MaxPings == 1
\* packets received during the handshake where every ssl-mode and URL is tried
MaxConnectRecv == 1
\* calls of bind, and of add, on one query
MaxBinds == 2
\* rows and errors in one result set
MaxRows == 2
\* bytes in the buffer before a value is encoded into it
MaxBuf == 1

Tasks == 1..NumTasks
\* one more identity than max_size, so that an over-allocation is visible
ConnIds == 1..(MaxSize + 1)

VARIABLES
    \* ---- pool (spec 3 "Pool", 4.5) ----
    poolState,   \* "Running" | "Closing" | "Closed"
    idle,        \* the idle queue: a sequence of connection ids
    liveCount,   \* live_count: the pool's count of live connections
    waiters,     \* the waiter queue: a sequence of tasks (FIFO)
    pc,          \* pc[t]: where task t is in acquire / with its connection
    conn,        \* conn[t]: the connection t pings or holds (0: none)
    bad,         \* bad[t]: the connection t holds is in an error state
    res,         \* res[t]: result of t's latest acquire / executor call
    \* ---- history (not program state) ----
    closedOn,    \* closedOn[t]: how t's current acquire met close
    acqLive,     \* acqLive[t]: live_count right after t's acquire (-1: disturbed)
    last,        \* the latest pool operation and what it saw
    \* ---- MySQL connection (mysql/connection.rs) ----
    url,               \* the parsed connection URL
    tlsFeature,        \* whether the `tls` feature is compiled in
    clientCaps,        \* the capabilities MySqlStream::new starts with
    hpc,               \* where connect / establish is
    handshake,         \* establish's `handshake` (the parsed Handshake)
    capabilities,      \* stream.capabilities
    isTls,             \* stream.is_tls()
    auth_plugin,       \* establish's `auth_plugin`
    auth_plugin_data,  \* establish's `auth_plugin_data` (the salt / nonce)
    sent,              \* every packet the client has sent, in order
    recvd,             \* every packet received after the Handshake, in order
    seqNo,             \* the stream's packet sequence counter
    outcome,           \* what establish / connect returned
    is_ready,          \* MySqlConnection::is_ready
    pingRes,           \* what the latest ping returned
    pings,             \* number of pings issued
    cache_statement,   \* MySqlConnection::cache_statement (the SQL texts)
    closeLog,          \* what close has done to the stream, in order
    closeRes,          \* what close returned
    cursors,           \* cursors open on the connection (spec 3 "Cursor")
    \* ---- history (not program state) ----
    hlast,             \* the latest connection step and what it started from
    estAt,             \* lengths of sent / recvd when establish returned
    \* ---- query building (query.rs, arguments.rs) ----
    boundQuery,        \* the Query that query(sql) made and bind extends
    args,              \* an Arguments buffer the caller fills by hand
    iq,                \* the Query<ImmutableArguments> that bind_all made
    parts,             \* what Execute::into_parts handed to the executor
    \* ---- history (not program state) ----
    bindCalls,         \* the values passed to bind, in call order
    addCalls,          \* the values passed to add, in call order
    \* ---- Map's fetch operations (query.rs) ----
    resultSet,         \* what the cursor will yield: rows and errors
    failsOn,           \* the rows on which the mapper returns Err
    fres,              \* the operation run, its result, what it pulled
    \* ---- Encode / Decode (encode.rs, postgres/types) ----
    cbuf,              \* the buffer values are encoded into
    cres,              \* the latest encode / decode and what it returned
    \* ---- MySQL type ids (mysql/protocol/type.rs) ----
    shown              \* the TypeId formatted last, and its text

poolVars == <<poolState, idle, liveCount, waiters, pc, conn, bad, res,
              closedOn, acqLive, last>>

mysqlVars == <<url, tlsFeature, clientCaps, hpc, handshake, capabilities,
               isTls, auth_plugin, auth_plugin_data, sent, recvd, seqNo,
               outcome, is_ready, pingRes, pings, cache_statement, closeLog,
               closeRes, cursors, hlast, estAt>>

\* what only the established connection's operations change
connVars == <<cache_statement, closeLog, closeRes, cursors>>

queryVars == <<boundQuery, args, iq, parts, bindCalls, addCalls>>

fetchVars == <<resultSet, failsOn, fres>>

codecVars == <<cbuf, cres, shown>>

\* the query pipeline: what no pool or connection operation touches
pipelineVars == <<queryVars, fetchVars, codecVars>>

vars == <<poolVars, mysqlVars, pipelineVars>>

Range(s) == {s[i] : i \in DOMAIN s}

Min(S) == CHOOSE x \in S : \A y \in S : x <= y

RemoveAt(s, i) == SubSeq(s, 1, i - 1) \o SubSeq(s, i + 1, Len(s))

IndexOf(s, x) == CHOOSE i \in DOMAIN s : s[i] = x

(***************************************************************************)
(* MySQL connection phase: mysql/connection.rs.                            *)
(*                                                                         *)
(* A packet is a sequence of bytes (0..255).  Values whose bytes come from *)
(* code outside connection.rs (the scramble of AuthPlugin::scramble, the   *)
(* RSA ciphertext of rsa::encrypt) are kept symbolic: records that name    *)
(* the inputs they were computed from.                                     *)
(***************************************************************************)
\* Size before a packet is split
MAX_PACKET_SIZE == 1024

COLLATE_UTF8MB4_UNICODE_CI == 224

\* AuthPlugin
Plugins == {"MySqlNativePassword", "CachingSha2Password", "Sha256Password"}

\* Option<T> as a set with at most one element
None == {}
Some(x) == {x}
UnwrapOr(o, d) == IF o = {} THEN d ELSE CHOOSE x \in o : TRUE

\* the password "pw" as bytes
PwBytes == <<112, 119>>

\* the salt of the server's Handshake, and the salts an AuthSwitch may carry
HandshakeSalt == <<5, 6>>
SwitchSalts == {<<7>>, <<8, 9>>}

\* the plugin name an AuthSwitch packet carries, by its encoding here
PluginOfByte(b) ==
    CASE b = 1 -> Some("MySqlNativePassword")
      [] b = 2 -> Some("CachingSha2Password")
      [] b = 3 -> Some("Sha256Password")
      [] OTHER -> None

\* every packet the server may send after its Handshake
ServerPackets ==
    {<<>>, <<0>>, <<255>>, <<254>>, <<1>>, <<1, 3>>, <<1, 4>>, <<1, 5>>,
     <<1, 45>>, <<2>>}
    \cup {<<254, p>> \o salt : p \in {1, 2, 3}, salt \in SwitchSalts}

\* Handshake::read: the fields establish uses
Handshakes ==
    [auth_plugin : Plugins, auth_plugin_data : {HandshakeSalt},
     server_capabilities : {{"PROTOCOL_41", "SSL", "PLUGIN_AUTH", "COMPRESS"},
                            {"PLUGIN_AUTH"}}]

NoHandshake == [auth_plugin |-> "MySqlNativePassword",
                auth_plugin_data |-> <<>>, server_capabilities |-> {}]

\* AuthSwitch::read: plugin name, then the plugin data
AuthSwitchRead(packet) ==
    IF Len(packet) < 3 \/ PluginOfByte(packet[2]) = None
    THEN [ok |-> FALSE, auth_plugin |-> "MySqlNativePassword",
          auth_plugin_data |-> <<>>]
    ELSE [ok |-> TRUE, auth_plugin |-> UnwrapOr(PluginOfByte(packet[2]), ""),
          auth_plugin_data |-> SubSeq(packet, 3, Len(packet))]

\* crate::Result values
Pending == [status |-> "pending", kind |-> "", why |-> ""]
Ok == [status |-> "Ok", kind |-> "", why |-> ""]
Err(kind, why) == [status |-> "Err", kind |-> kind, why |-> why]
\* an index or slice out of range, or todo!(): the thread panics
Panic(why) == [status |-> "panic", kind |-> "", why |-> why]

\* stream.handle_err(): the ERR packet as a Database error
HandleErr == Err("Database", "err packet")
\* stream.handle_unexpected()
HandleUnexpected == Err("Protocol", "unexpected")

\* fn to_asciz
to_asciz(s) == Append(s, 0)

RECURSIVE XorBits(_, _, _)
XorBits(a, b, n) ==
    IF n = 0 THEN 0
    ELSE (((a % 2) + (b % 2)) % 2) + (2 * XorBits(a \div 2, b \div 2, n - 1))

\* xor_eq: x[i] ^= y[i % y.len()]
xor_eq(x, y) ==
    [i \in 1..Len(x) |-> XorBits(x[i], y[((i - 1) % Len(y)) + 1], 8)]

\* an auth response / payload made of known bytes
Bytes(b) == [form |-> "bytes", bytes |-> b]

\* AuthPlugin::scramble(password, nonce)
Scramble(plugin, password, nonce) ==
    [form |-> "scramble", plugin |-> plugin, password |-> password,
     nonce |-> nonce]

\* rsa::encrypt::<Sha1>(rsa_pub_key, pass): a PEM key starts with '-' (45)
RsaKeyValid(key) == key # <<>> /\ key[1] = 45
RsaEncrypt(key, plain) == [form |-> "rsa", key |-> key, plain |-> plain]

\* url.password().unwrap_or_default()
Password(u) == UnwrapOr(u.password, <<>>)

\* the sequence counter after a send (reset first when `initial`) and after
\* a receive
SeqAfterSend(n, initial) == (((IF initial THEN 0 ELSE n)) + 1) % 256
SeqAfterRecv(n) == (n + 1) % 256

\* the sequence id a sent packet carries
SeqOfSend(n, initial) == IF initial THEN 0 ELSE n

RawPacket(n, body) == [kind |-> "raw", seq |-> n, body |-> body]

\* a variant that sends the URL's username as it is, empty if there is none
ResponseNoDefaultUser(n, u, plugin, response) ==
    [kind |-> "HandshakeResponse", seq |-> n,
     client_collation |-> COLLATE_UTF8MB4_UNICODE_CI,
     max_packet_size |-> MAX_PACKET_SIZE,
     username |-> UnwrapOr(u.username, ""),
     database |-> u.database,
     auth_plugin |-> plugin,
     auth_response |-> response]

\* HandshakeResponse { .. }, lines 175-182
HandshakeResponse(n, u, plugin, response) ==
    [kind |-> "HandshakeResponse", seq |-> n,
     client_collation |-> COLLATE_UTF8MB4_UNICODE_CI,
     max_packet_size |-> MAX_PACKET_SIZE,
     username |-> UnwrapOr(u.username, "root"),
     database |-> u.database,
     auth_plugin |-> plugin,
     auth_response |-> response]

\* a variant that sends the password in clear whatever the stream is
RsaStartClear(tls, public_key_request_id, password) ==
    [done |-> TRUE, response |-> Bytes(to_asciz(password)), request |-> <<>>]
\* a variant that asks for the public key whatever the stream is
RsaStartPlain(tls, public_key_request_id, password) ==
    [done |-> FALSE, response |-> Bytes(<<>>),
     request |-> <<public_key_request_id>>]
\* rsa_encrypt_with_nonce up to its first receive: on TLS the password in
\* clear, NUL-terminated; otherwise the public key request is to be sent
RsaStart(tls, public_key_request_id, password) ==
    IF tls
    THEN [done |-> TRUE, response |-> Bytes(to_asciz(password)),
          request |-> <<>>]
    ELSE [done |-> FALSE, response |-> Bytes(<<>>),
          request |-> <<public_key_request_id>>]

\* a variant that encrypts the password as it is, not XORed with the nonce
RsaFinishNoXor(packet, password, nonce) ==
    IF Len(packet) < 1
    THEN [result |-> Panic("packet[1..]"), enc |-> Bytes(<<>>)]
    ELSE IF RsaKeyValid(SubSeq(packet, 2, Len(packet)))
         THEN [result |-> Ok,
               enc |-> RsaEncrypt(SubSeq(packet, 2, Len(packet)),
                                  to_asciz(password))]
         ELSE [result |-> Err("Protocol", "rsa"), enc |-> Bytes(<<>>)]

\* rsa_encrypt_with_nonce from the public key packet on
RsaFinish(packet, password, nonce) ==
    IF Len(packet) < 1
    THEN [result |-> Panic("packet[1..]"), enc |-> Bytes(<<>>)]
    ELSE LET rsa_pub_key == SubSeq(packet, 2, Len(packet))
             pass == xor_eq(to_asciz(password), nonce)
         IN  IF RsaKeyValid(rsa_pub_key)
             THEN [result |-> Ok, enc |-> RsaEncrypt(rsa_pub_key, pass)]
             ELSE [result |-> Err("Protocol", "rsa"), enc |-> Bytes(<<>>)]

\* a variant that scrambles with the salt of the Handshake, whatever the
\* plugin and the current salt
StaleAuthResponse(tls, plugin, password, nonce) ==
    [done |-> TRUE, response |-> Scramble(plugin, password, HandshakeSalt),
     request |-> <<>>]
\* make_auth_response up to its first receive
make_auth_response(tls, plugin, password, nonce) ==
    IF plugin \in {"CachingSha2Password", "MySqlNativePassword"}
    THEN [done |-> TRUE, response |-> Scramble(plugin, password, nonce),
          request |-> <<>>]
    ELSE RsaStart(tls, 1, password)

MySqlVarsIdle ==
    /\ hpc = "unused"
    /\ url = [username |-> None, password |-> None, database |-> None,
              ssl_mode |-> "DISABLED"]
    /\ tlsFeature = FALSE
    /\ clientCaps = {}
    /\ handshake = NoHandshake
    /\ capabilities = {}
    /\ isTls = FALSE
    /\ auth_plugin = "MySqlNativePassword"
    /\ auth_plugin_data = <<>>
    /\ sent = <<>>
    /\ recvd = <<>>
    /\ seqNo = 0
    /\ outcome = Pending
    /\ is_ready = FALSE
    /\ pingRes = Pending
    /\ pings = 0
    /\ cache_statement = {}
    /\ closeLog = <<>>
    /\ closeRes = Pending
    /\ cursors = 0
    /\ hlast = [step |-> "none", packet |-> <<>>, sentLen |-> 0,
                plugin |-> "MySqlNativePassword", data |-> <<>>,
                hpc |-> "unused"]
    /\ estAt = [sent |-> 0, recvd |-> 0]

\* MySqlStream::new: a plain stream with the client's capabilities
MySqlInitWith(urls, features, capSets) ==
    /\ hpc = "handshake"
    /\ url \in urls
    /\ tlsFeature \in features
    /\ clientCaps \in capSets
    /\ capabilities = clientCaps
    /\ handshake = NoHandshake
    /\ isTls = FALSE
    /\ auth_plugin = "MySqlNativePassword"
    /\ auth_plugin_data = <<>>
    /\ sent = <<>>
    /\ recvd = <<>>
    /\ seqNo = 0
    /\ outcome = Pending
    /\ is_ready = FALSE
    /\ pingRes = Pending
    /\ pings = 0
    /\ cache_statement = {}
    /\ closeLog = <<>>
    /\ closeRes = Pending
    /\ cursors = 0
    /\ hlast = [step |-> "none", packet |-> <<>>, sentLen |-> 0,
                plugin |-> "MySqlNativePassword", data |-> <<>>,
                hpc |-> "handshake"]
    /\ estAt = [sent |-> 0, recvd |-> 0]

Step(name, packet) ==
    [step |-> name, packet |-> packet, sentLen |-> Len(sent),
     plugin |-> auth_plugin, data |-> auth_plugin_data, hpc |-> hpc]

\* establish returns: Ok(()), an error, or the thread panics
Return(result) ==
    /\ outcome' = result
    /\ hpc' = IF result.status = "Ok" THEN "established" ELSE "failed"
    /\ estAt' = [sent |-> Len(sent'), recvd |-> Len(recvd')]

Continue(at) ==
    /\ hpc' = at
    /\ UNCHANGED <<outcome, estAt>>

\* a variant that takes over what the server advertises
ServerCapabilities(caps, server_capabilities) ==
    server_capabilities \cup {"PROTOCOL_41"}
\* lines 155-156: `stream.capabilities &= handshake.server_capabilities;`
\* `stream.capabilities |= Capabilities::PROTOCOL_41;`
IntersectCapabilities(caps, server_capabilities) ==
    (caps \cap server_capabilities) \cup {"PROTOCOL_41"}

\* establish, lines 152-159: read the Handshake, intersect the capabilities
ReceiveHandshake ==
    /\ hpc = "handshake"
    /\ \E h \in Handshakes :
         /\ handshake' = h
         /\ auth_plugin' = h.auth_plugin
         /\ auth_plugin_data' = h.auth_plugin_data
         /\ capabilities' =
               IntersectCapabilities(capabilities, h.server_capabilities)
    /\ seqNo' = SeqAfterRecv(seqNo)
    /\ hlast' = Step("handshake", <<>>)
    /\ Continue("upgrade")
    /\ UNCHANGED <<url, tlsFeature, clientCaps, isTls, sent, recvd, is_ready,
                   pingRes, pings>>
    /\ UNCHANGED <<poolVars, pipelineVars, connVars>>

\* ssl-mode
SslModes == {"DISABLED", "PREFERRED", "REQUIRED", "VERIFY_CA",
             "VERIFY_IDENTITY"}

\* a variant under which every ssl-mode tolerates a plain stream
NeverMust(mode) == FALSE
\* ssl-mode REQUIRED, VERIFY_CA, VERIFY_IDENTITY: the stream must be TLS
MustUpgrade(mode) == mode \in {"REQUIRED", "VERIFY_CA", "VERIFY_IDENTITY"}

\* tls::upgrade_if_needed (lines 46-56, 161-164; spec 4.3.2 step 3)
UpgradeIfNeeded ==
    /\ hpc = "upgrade"
    /\ hlast' = Step("upgrade", <<>>)
    /\ UNCHANGED recvd
    /\ LET attempt == url.ssl_mode # "DISABLED" /\ tlsFeature
           offered == "SSL" \in capabilities
           must == MustUpgrade(url.ssl_mode)
       IN  \E wrapped \in BOOLEAN :
             /\ (~attempt \/ ~offered) => ~wrapped
             /\ IF attempt /\ offered
                THEN /\ sent' = Append(sent, [kind |-> "SSLRequest",
                                              seq |-> SeqOfSend(seqNo, FALSE)])
                     /\ seqNo' = SeqAfterSend(seqNo, FALSE)
                ELSE UNCHANGED <<sent, seqNo>>
             /\ isTls' = wrapped
             /\ IF must /\ ~wrapped
                THEN Return(Err("Tls", "upgrade"))
                ELSE Continue("respond")
    /\ UNCHANGED <<url, tlsFeature, clientCaps, handshake, capabilities,
                   auth_plugin, auth_plugin_data, is_ready, pingRes, pings>>
    /\ UNCHANGED <<poolVars, pipelineVars, connVars>>

\* what follows a make_auth_response / rsa_encrypt_with_nonce call whose
\* result `r` is known: the response goes out (in the HandshakeResponse
\* before the loop, alone inside it), or the public key request goes out
\* and the key is awaited
SendOrAwaitKey(r, first, keyAt, plugin) ==
    IF r.done
    THEN /\ sent' = Append(sent,
                IF first
                THEN HandshakeResponse(SeqOfSend(seqNo, FALSE), url, plugin,
                                       r.response)
                ELSE RawPacket(SeqOfSend(seqNo, FALSE), r.response))
         /\ seqNo' = SeqAfterSend(seqNo, FALSE)
         /\ Continue("loop")
    ELSE /\ sent' = Append(sent,
                RawPacket(SeqOfSend(seqNo, FALSE), Bytes(r.request)))
         /\ seqNo' = SeqAfterSend(seqNo, FALSE)
         /\ Continue(keyAt)

\* establish, lines 169-185: compute the auth response, send the
\* HandshakeResponse
Respond ==
    /\ hpc = "respond"
    /\ hlast' = Step("respond", <<>>)
    /\ SendOrAwaitKey(make_auth_response(isTls, auth_plugin, Password(url),
                                         auth_plugin_data),
                      TRUE, "key_first", auth_plugin)
    /\ UNCHANGED <<url, tlsFeature, clientCaps, handshake, capabilities,
                   isTls, auth_plugin, auth_plugin_data, recvd, is_ready,
                   pingRes, pings>>
    /\ UNCHANGED <<poolVars, pipelineVars, connVars>>

\* rsa_encrypt_with_nonce, lines 118-127, and what its caller does with the
\* result: lines 173-185 (before the loop), 212 (auth switch), 227 (continue)
ReceiveKey ==
    /\ hpc \in {"key_first", "key_switch", "key_continue"}
    /\ Len(recvd) < MaxRecv
    /\ \E packet \in ServerPackets :
         LET r == RsaFinish(packet, Password(url), auth_plugin_data) IN
         /\ recvd' = Append(recvd, [at |-> "key", bytes |-> packet])
         /\ hlast' = Step("key", packet)
         /\ IF r.result.status = "Ok"
            THEN /\ sent' = Append(sent,
                      IF hpc = "key_first"
                      THEN HandshakeResponse(
                               SeqOfSend(SeqAfterRecv(seqNo), FALSE), url,
                               auth_plugin, r.enc)
                      ELSE RawPacket(SeqOfSend(SeqAfterRecv(seqNo), FALSE),
                                     r.enc))
                 /\ seqNo' = SeqAfterSend(SeqAfterRecv(seqNo), FALSE)
                 /\ Continue("loop")
            ELSE /\ seqNo' = SeqAfterRecv(seqNo)
                 /\ UNCHANGED sent
                 /\ Return(r.result)
    /\ UNCHANGED <<url, tlsFeature, clientCaps, handshake, capabilities,
                   isTls, auth_plugin, auth_plugin_data, is_ready, pingRes,
                   pings>>
    /\ UNCHANGED <<poolVars, pipelineVars, connVars>>

\* a variant that takes 0x01 as fast authentication under every plugin
AnyPluginArm(packet, plugin) ==
    CASE Len(packet) = 0 -> "index"
      [] Len(packet) > 0 /\ packet[1] = 0 -> "ok"
      [] Len(packet) > 0 /\ packet[1] = 255 -> "err"
      [] Len(packet) > 0 /\ packet[1] = 254 -> "auth_switch"
      [] Len(packet) > 0 /\ packet[1] = 1 -> "fast_auth"
      [] OTHER -> "unexpected"

\* a variant without the ERROR arm
NoErrArm(packet, plugin) ==
    CASE Len(packet) = 0 -> "index"
      [] Len(packet) > 0 /\ packet[1] = 0 -> "ok"
      [] Len(packet) > 0 /\ packet[1] = 254 -> "auth_switch"
      [] Len(packet) > 0 /\ packet[1] = 1
            /\ plugin = "CachingSha2Password" -> "fast_auth"
      [] OTHER -> "unexpected"
\* the arm of `match packet[0]` (lines 192-239) that a packet takes
LoopArm(packet, plugin) ==
    CASE Len(packet) = 0 -> "index"
      [] Len(packet) > 0 /\ packet[1] = 0 -> "ok"
      [] Len(packet) > 0 /\ packet[1] = 255 -> "err"
      [] Len(packet) > 0 /\ packet[1] = 254 -> "auth_switch"
      [] Len(packet) > 0 /\ packet[1] = 1
            /\ plugin = "CachingSha2Password" -> "fast_auth"
      [] OTHER -> "unexpected"

\* the arm of `match packet[1]` (lines 216-233)
FastAuthArm(packet) ==
    CASE Len(packet) < 2 -> "index"
      [] Len(packet) >= 2 /\ packet[2] = 3 -> "auth_ok"
      [] Len(packet) >= 2 /\ packet[2] = 4 -> "auth_continue"
      [] OTHER -> "unknown"

\* establish, lines 187-240: one iteration of the auth loop
AuthLoop ==
    /\ hpc = "loop"
    /\ Len(recvd) < MaxRecv
    /\ \E packet \in ServerPackets :
         LET arm == LoopArm(packet, auth_plugin)
             n == SeqAfterRecv(seqNo)
         IN
         /\ recvd' = Append(recvd, [at |-> "loop", bytes |-> packet])
         /\ hlast' = Step("loop", packet)
         /\ CASE arm = "index" ->
                   /\ seqNo' = n
                   /\ UNCHANGED <<sent, auth_plugin, auth_plugin_data>>
                   /\ Return(Panic("packet[0]"))
              [] arm = "ok" ->
                   /\ seqNo' = n
                   /\ UNCHANGED <<sent, auth_plugin, auth_plugin_data>>
                   /\ Return(Ok)
              [] arm = "err" ->
                   /\ seqNo' = n
                   /\ UNCHANGED <<sent, auth_plugin, auth_plugin_data>>
                   /\ Return(HandleErr)
              [] arm = "auth_switch" ->
                   LET auth == AuthSwitchRead(packet) IN
                   IF ~auth.ok
                   THEN /\ seqNo' = n
                        /\ UNCHANGED <<sent, auth_plugin, auth_plugin_data>>
                        /\ Return(Err("Protocol", "auth switch"))
                   ELSE /\ auth_plugin' = auth.auth_plugin
                        /\ auth_plugin_data' = auth.auth_plugin_data
                        /\ LET r == make_auth_response(isTls,
                                        auth.auth_plugin, Password(url),
                                        auth.auth_plugin_data)
                           IN  /\ sent' = Append(sent,
                                      RawPacket(SeqOfSend(n, FALSE),
                                         IF r.done THEN r.response
                                         ELSE Bytes(r.request)))
                               /\ seqNo' = SeqAfterSend(n, FALSE)
                               /\ Continue(IF r.done THEN "loop"
                                           ELSE "key_switch")
              [] arm = "fast_auth" ->
                   LET sub == FastAuthArm(packet) IN
                   CASE sub = "index" ->
                          /\ seqNo' = n
                          /\ UNCHANGED <<sent, auth_plugin, auth_plugin_data>>
                          /\ Return(Panic("packet[1]"))
                     [] sub = "auth_ok" ->
                          /\ Continue("loop")
                          /\ seqNo' = n
                          /\ UNCHANGED <<sent, auth_plugin, auth_plugin_data>>
                     [] sub = "auth_continue" ->
                          LET r == RsaStart(isTls, 2, Password(url)) IN
                          /\ sent' = Append(sent,
                                 RawPacket(SeqOfSend(n, FALSE),
                                    IF r.done THEN r.response
                                    ELSE Bytes(r.request)))
                          /\ seqNo' = SeqAfterSend(n, FALSE)
                          /\ Continue(IF r.done THEN "loop"
                                      ELSE "key_continue")
                          /\ UNCHANGED <<auth_plugin, auth_plugin_data>>
                     [] OTHER ->
                          /\ seqNo' = n
                          /\ UNCHANGED <<sent, auth_plugin, auth_plugin_data>>
                          /\ Return(Err("Protocol", "fast auth"))
              [] OTHER ->
                   /\ seqNo' = n
                   /\ UNCHANGED <<sent, auth_plugin, auth_plugin_data>>
                   /\ Return(HandleUnexpected)
    /\ UNCHANGED <<url, tlsFeature, clientCaps, handshake, capabilities,
                   isTls, is_ready, pingRes, pings>>
    /\ UNCHANGED <<poolVars, pipelineVars, connVars>>

\* the initialization statement (lines 305-309), setting by setting
InitSql ==
    <<"SET sql_mode=(SELECT CONCAT(@@sql_mode, ',PIPES_AS_CONCAT,NO_ENGINE_SUBSTITUTION,NO_ZERO_DATE,NO_ZERO_IN_DATE'))",
      "SET time_zone = '+00:00'",
      "SET NAMES utf8mb4 COLLATE utf8mb4_unicode_ci">>

\* the server's reply to the statement: an OK or an ERR packet
InitReplies == {<<0>>, <<255>>}

\* a variant of `new` that returns the connection whatever the reply
InitIgnored(reply) == "connected"
\* `self_.execute(..).await?; Ok(self_)`: the connection is returned only
\* if the statement succeeded
InitOutcome(reply) == IF reply[1] = 0 THEN "connected" ELSE "init_failed"

\* MySqlConnection::new, lines 273-311: build the connection, run the
\* initialization statement; its result is the server's choice
Initialize ==
    /\ hpc = "established"
    /\ sent' = Append(sent, [kind |-> "ComQuery", seq |-> 0,
                             sql |-> InitSql])
    /\ cache_statement' = {}
    /\ seqNo' = 2
    /\ \E reply \in InitReplies :
         /\ hlast' = Step("init", reply)
         /\ hpc' = InitOutcome(reply)
         /\ is_ready' = (InitOutcome(reply) = "connected")
    /\ UNCHANGED <<url, tlsFeature, clientCaps, handshake, capabilities,
                   isTls, auth_plugin, auth_plugin_data, recvd, pingRes,
                   pings, estAt, outcome>>
    /\ UNCHANGED <<poolVars, pipelineVars, closeLog, closeRes, cursors>>

\* a variant that takes only 0x00 for a success
PingOkOnly(packet) ==
    CASE Len(packet) = 0 -> Panic("packet[0]")
      [] Len(packet) > 0 /\ packet[1] = 0 -> Ok
      [] Len(packet) > 0 /\ packet[1] = 255 -> HandleErr
      [] OTHER -> HandleUnexpected

\* the arm of ping's match on the first byte of the response (lines 257-263)
PingResult(packet) ==
    CASE Len(packet) = 0 -> Panic("packet[0]")
      [] Len(packet) > 0 /\ packet[1] \in {0, 254} -> Ok
      [] Len(packet) > 0 /\ packet[1] = 255 -> HandleErr
      [] OTHER -> HandleUnexpected

\* the replies to a ping: one packet for each first byte ping tells apart,
\* and the empty packet
PingReplies == {<<>>, <<0>>, <<255>>, <<254>>, <<1>>, <<2>>}

\* a variant in which the command goes on with the current sequence id
PingContinues == FALSE
\* `stream.send(ComPing, true)`: the command starts a new sequence
PingInitial == TRUE

\* Connection::ping -> ping(&mut self.stream), lines 254-264, 330-332; it
\* takes `&mut self`, so no cursor borrows the connection meanwhile
Ping ==
    /\ hpc = "connected"
    /\ cursors = 0
    /\ pings < MaxPings
    /\ pings' = pings + 1
    /\ hlast' = Step("ping", <<>>)
    /\ sent' = Append(sent, [kind |-> "ComPing",
                             seq |-> SeqOfSend(seqNo, PingInitial)])
    /\ \E packet \in PingReplies :
         /\ recvd' = Append(recvd, [at |-> "ping", bytes |-> packet])
         /\ pingRes' = PingResult(packet)
         /\ hpc' = IF PingResult(packet).status = "panic" THEN "panicked"
                   ELSE hpc
    /\ seqNo' = SeqAfterRecv(SeqAfterSend(seqNo, PingInitial))
    /\ UNCHANGED <<url, tlsFeature, clientCaps, handshake, capabilities,
                   isTls, auth_plugin, auth_plugin_data, outcome, is_ready,
                   estAt>>
    /\ UNCHANGED <<poolVars, pipelineVars, connVars>>

\* a query on the connection leaves a result set pending (the connection is
\* Busy, spec 3) until its cursor is exhausted; the cursor borrows the
\* connection for its whole lifetime (spec 4.6)
BeginFetch ==
    /\ hpc = "connected"
    /\ is_ready
    /\ cursors = 0
    /\ is_ready' = FALSE
    /\ cursors' = 1
    /\ hlast' = Step("fetch", <<>>)
    /\ UNCHANGED <<url, tlsFeature, clientCaps, hpc, handshake, capabilities,
                   isTls, auth_plugin, auth_plugin_data, sent, recvd, seqNo,
                   outcome, pingRes, pings, estAt>>
    /\ UNCHANGED <<poolVars, pipelineVars, cache_statement, closeLog,
                   closeRes>>

\* the cursor is consumed to exhaustion: the connection is ready again
EndFetch ==
    /\ hpc = "connected"
    /\ cursors = 1
    /\ is_ready' = TRUE
    /\ cursors' = 0
    /\ hlast' = Step("fetched", <<>>)
    /\ UNCHANGED <<url, tlsFeature, clientCaps, hpc, handshake, capabilities,
                   isTls, auth_plugin, auth_plugin_data, sent, recvd, seqNo,
                   outcome, pingRes, pings, estAt>>
    /\ UNCHANGED <<poolVars, pipelineVars, cache_statement, closeLog,
                   closeRes>>

\* the cursor is dropped before exhaustion: the borrow ends with rows still
\* pending, and the connection stays not ready
DropCursor ==
    /\ hpc = "connected"
    /\ cursors = 1
    /\ cursors' = 0
    /\ hlast' = Step("drop", <<>>)
    /\ UNCHANGED <<url, tlsFeature, clientCaps, hpc, handshake, capabilities,
                   isTls, auth_plugin, auth_plugin_data, sent, recvd, seqNo,
                   outcome, is_ready, pingRes, pings, estAt>>
    /\ UNCHANGED <<poolVars, pipelineVars, cache_statement, closeLog,
                   closeRes>>

\* close's result: `stream.flush().await?; stream.shutdown()?; Ok(())`
CloseResult(flushed, shut) ==
    IF ~flushed THEN Err("Io", "flush")
    ELSE IF ~shut THEN Err("Io", "shutdown")
    ELSE Ok

\* Connection::close -> close(self.stream), lines 245-252, 326-328: the
\* stream is flushed and shut down (nothing is sent); each step may fail.
\* It takes `self`, so no cursor borrows the connection
close ==
    /\ hpc = "connected"
    /\ cursors = 0
    /\ hpc' = "closed"
    /\ hlast' = Step("close", <<>>)
    /\ \E flushed \in BOOLEAN, shut \in BOOLEAN :
         /\ closeLog' =
               IF flushed
               THEN <<[op |-> "flush", ok |-> TRUE],
                      [op |-> "shutdown", ok |-> shut]>>
               ELSE <<[op |-> "flush", ok |-> FALSE]>>
         /\ closeRes' = CloseResult(flushed, shut)
    /\ UNCHANGED <<url, tlsFeature, clientCaps, handshake, capabilities,
                   isTls, auth_plugin, auth_plugin_data, sent, recvd, seqNo,
                   outcome, is_ready, pingRes, pings, cache_statement,
                   cursors, estAt>>
    /\ UNCHANGED <<poolVars, pipelineVars>>

MySqlNext ==
    \/ ReceiveHandshake
    \/ UpgradeIfNeeded
    \/ Respond
    \/ ReceiveKey
    \/ AuthLoop
    \/ Initialize
    \/ Ping

NoOp == [op |-> "none", task |-> 0, conn |-> 0, healthy |-> TRUE,
         liveBefore |-> 0, acqLive |-> -1, waitersBefore |-> <<>>]

\* connections that exist: idle, being pinged, or handed out
UsedConns == (Range(idle) \cup {conn[t] : t \in Tasks}) \ {0}

\* tasks that are opening a new connection (slot reserved, no identity yet)
Opening == {t \in Tasks : pc[t] = "connecting"}

\* idle plus handed out (or being pinged) plus being opened
LiveConnections == Cardinality(UsedConns) + Cardinality(Opening)

PoolInit ==
    /\ poolState = "Running"
    /\ idle = <<>>
    /\ liveCount = 0
    /\ waiters = <<>>
    /\ pc = [t \in Tasks |-> "idle"]
    /\ conn = [t \in Tasks |-> 0]
    /\ bad = [t \in Tasks |-> FALSE]
    /\ res = [t \in Tasks |-> "none"]
    /\ closedOn = [t \in Tasks |-> "no"]
    /\ acqLive = [t \in Tasks |-> -1]
    /\ last = NoOp

\* acqLive after an operation that changed live_count: every other holder's
\* snapshot no longer describes an undisturbed acquire-then-drop
Disturb(t, f) == [u \in Tasks |-> IF u = t THEN f[u] ELSE -1]

(***************************************************************************)
(* acquire, steps 1-4 of the acquisition algorithm (spec 4.5).  Run at the *)
(* start of acquire and again by a waiter that has been woken.             *)
(***************************************************************************)
\* a variant of step 3's test that ignores max_size
AlwaysFree == TRUE
\* step 3's test: live_count < max_size
SlotFree == liveCount < MaxSize

Attempt(t, atStart) ==
    IF poolState # "Running"
    THEN \* 1. closing/closed: fail with PoolClosed
         /\ pc' = [pc EXCEPT ![t] = "idle"]
         /\ res' = [res EXCEPT ![t] = "PoolClosed"]
         /\ closedOn' = [closedOn EXCEPT ![t] =
                            IF atStart THEN "start" ELSE @]
         /\ UNCHANGED <<idle, liveCount, waiters, conn, acqLive>>
    ELSE /\ closedOn' = [closedOn EXCEPT ![t] = "no"]
         /\ IF idle # <<>>
            THEN \* 2. pop an idle connection and check its liveness
                 /\ idle' = Tail(idle)
                 /\ conn' = [conn EXCEPT ![t] = Head(idle)]
                 /\ pc' = [pc EXCEPT ![t] = "checking"]
                 /\ res' = [res EXCEPT ![t] = "pending"]
                 /\ UNCHANGED <<liveCount, waiters, acqLive>>
            ELSE IF SlotFree
            THEN \* 3. reserve a slot and open a new connection
                 /\ liveCount' = liveCount + 1
                 /\ acqLive' = Disturb(t, acqLive)
                 /\ pc' = [pc EXCEPT ![t] = "connecting"]
                 /\ res' = [res EXCEPT ![t] = "pending"]
                 /\ UNCHANGED <<idle, waiters, conn>>
            ELSE \* 4. enqueue a waiter and sleep
                 /\ waiters' = Append(waiters, t)
                 /\ pc' = [pc EXCEPT ![t] = "waiting"]
                 /\ res' = [res EXCEPT ![t] = "pending"]
                 /\ UNCHANGED <<idle, liveCount, conn, acqLive>>

Acquire(t) ==
    /\ pc[t] = "idle"
    /\ Attempt(t, TRUE)
    /\ last' = [NoOp EXCEPT !.op = "acquire", !.task = t,
                            !.liveBefore = liveCount]
    /\ UNCHANGED <<poolState, bad>>
    /\ UNCHANGED <<mysqlVars, pipelineVars>>

\* a woken waiter runs the algorithm again
Retry(t) ==
    /\ pc[t] = "woken"
    /\ Attempt(t, FALSE)
    /\ last' = [NoOp EXCEPT !.op = "retry", !.task = t,
                            !.conn = IF poolState = "Running" /\ idle # <<>>
                                     THEN Head(idle) ELSE 0,
                            !.healthy = (poolState = "Running"),
                            !.liveBefore = liveCount]
    /\ UNCHANGED <<poolState, bad>>
    /\ UNCHANGED <<mysqlVars, pipelineVars>>

\* step 2: the liveness check (ping) of the popped connection succeeds
PingOk(t) ==
    /\ pc[t] = "checking"
    /\ pc' = [pc EXCEPT ![t] = "holding"]
    /\ res' = [res EXCEPT ![t] = "ok"]
    /\ acqLive' = [acqLive EXCEPT ![t] = liveCount]
    /\ last' = [NoOp EXCEPT !.op = "acquired", !.task = t, !.conn = conn[t],
                            !.liveBefore = liveCount]
    /\ UNCHANGED <<poolState, idle, liveCount, waiters, conn, bad, closedOn>>
    /\ UNCHANGED <<mysqlVars, pipelineVars>>

\* step 2 fails: the dead connection is dropped (live_count - 1) and step 3
\* applies at once: the slot just freed is reserved again (live_count + 1)
PingFail(t) ==
    /\ pc[t] = "checking"
    /\ liveCount' = (liveCount - 1) + 1
    /\ conn' = [conn EXCEPT ![t] = 0]
    /\ pc' = [pc EXCEPT ![t] = "connecting"]
    /\ acqLive' = acqLive
    /\ last' = [NoOp EXCEPT !.op = "pingfail", !.task = t, !.conn = conn[t],
                            !.liveBefore = liveCount]
    /\ UNCHANGED <<poolState, idle, waiters, bad, res, closedOn>>
    /\ UNCHANGED <<mysqlVars, pipelineVars>>

\* step 3: the new connection opens
ConnectOk(t) ==
    /\ pc[t] = "connecting"
    /\ LET c == Min(ConnIds \ UsedConns) IN
         /\ conn' = [conn EXCEPT ![t] = c]
         /\ last' = [NoOp EXCEPT !.op = "acquired", !.task = t, !.conn = c,
                                 !.liveBefore = liveCount]
    /\ pc' = [pc EXCEPT ![t] = "holding"]
    /\ res' = [res EXCEPT ![t] = "ok"]
    /\ acqLive' = [acqLive EXCEPT ![t] = liveCount]
    /\ UNCHANGED <<poolState, idle, liveCount, waiters, bad, closedOn>>
    /\ UNCHANGED <<mysqlVars, pipelineVars>>

\* step 3 fails: release the slot and propagate the error
ConnectFail(t) ==
    /\ pc[t] = "connecting"
    /\ liveCount' = liveCount - 1
    /\ acqLive' = Disturb(t, acqLive)
    /\ pc' = [pc EXCEPT ![t] = "idle"]
    /\ res' = [res EXCEPT ![t] = "ConnectError"]
    /\ last' = [NoOp EXCEPT !.op = "connectfail", !.task = t,
                            !.liveBefore = liveCount]
    /\ UNCHANGED <<poolState, idle, waiters, conn, bad, closedOn>>
    /\ UNCHANGED <<mysqlVars, pipelineVars>>

\* step 4: connect_timeout elapses while waiting
Timeout(t) ==
    /\ pc[t] = "waiting"
    /\ waiters' = RemoveAt(waiters, IndexOf(waiters, t))
    /\ pc' = [pc EXCEPT ![t] = "idle"]
    /\ res' = [res EXCEPT ![t] = "PoolTimedOut"]
    /\ last' = [NoOp EXCEPT !.op = "timeout", !.task = t,
                            !.liveBefore = liveCount]
    /\ UNCHANGED <<poolState, idle, liveCount, conn, bad, closedOn, acqLive>>
    /\ UNCHANGED <<mysqlVars, pipelineVars>>

\* an I/O error while the connection is in use puts it in an error state
IoError(t) ==
    /\ pc[t] = "holding"
    /\ ~bad[t]
    /\ bad' = [bad EXCEPT ![t] = TRUE]
    /\ last' = [NoOp EXCEPT !.op = "ioerror", !.task = t, !.conn = conn[t],
                            !.liveBefore = liveCount]
    /\ UNCHANGED <<poolState, idle, liveCount, waiters, pc, conn, res,
                   closedOn, acqLive>>
    /\ UNCHANGED <<mysqlVars, pipelineVars>>

(***************************************************************************)
(* release (the drop of a PoolConnection), spec 4.5 "Release".             *)
(***************************************************************************)
\* the waiters a healthy release wakes: the first one, if any
WakeOne(ws) == IF ws = <<>> THEN {} ELSE {Head(ws)}

\* a variant that keeps the slot of a dropped connection
KeepLive(n) == n
\* live_count after the release of a connection in an error state
DropLive(n) == n - 1

\* a variant that discards a healthy connection
DiscardConn(q, c) == q
\* the idle queue after the release of a healthy connection
PushIdle(q, c) == Append(q, c)

Release(t) ==
    /\ pc[t] = "holding"
    /\ last' = [op |-> "release", task |-> t, conn |-> conn[t],
                healthy |-> ~bad[t], liveBefore |-> liveCount,
                acqLive |-> acqLive[t], waitersBefore |-> waiters]
    /\ IF bad[t]
       THEN \* error state: drop it and decrement live_count
            /\ liveCount' = DropLive(liveCount)
            /\ acqLive' = [u \in Tasks |-> -1]
            /\ pc' = [pc EXCEPT ![t] = "idle"]
            /\ UNCHANGED <<idle, waiters>>
       ELSE \* healthy: push to the idle queue and wake one waiter
            /\ idle' = PushIdle(idle, conn[t])
            /\ LET woken == WakeOne(waiters) IN
                 /\ waiters' = SelectSeq(waiters, LAMBDA w : w \notin woken)
                 /\ pc' = [u \in Tasks |->
                             IF u = t THEN "idle"
                             ELSE IF u \in woken THEN "woken" ELSE pc[u]]
            /\ acqLive' = [acqLive EXCEPT ![t] = -1]
            /\ UNCHANGED liveCount
    /\ conn' = [conn EXCEPT ![t] = 0]
    /\ bad' = [bad EXCEPT ![t] = FALSE]
    /\ UNCHANGED <<poolState, res, closedOn>>
    /\ UNCHANGED <<mysqlVars, pipelineVars>>

(***************************************************************************)
(* Pool close, spec 4.5: flip to Closing, drain and close the idle         *)
(* connections, reject further acquisitions, wake all waiters with         *)
(* PoolClosed.                                                             *)
(***************************************************************************)
\* a variant of close that leaves the waiters asleep
LeaveWaiting(t) == [p |-> "waiting", r |-> "pending"]
\* the result close hands a waiter
WakeClosed(t) == [p |-> "idle", r |-> "PoolClosed"]

Close ==
    /\ poolState = "Running"
    /\ poolState' = "Closing"
    /\ idle' = <<>>
    /\ liveCount' = liveCount - Len(idle)
    /\ acqLive' = IF idle = <<>> THEN acqLive ELSE [u \in Tasks |-> -1]
    /\ waiters' = <<>>
    /\ pc' = [u \in Tasks |->
                IF u \in Range(waiters) THEN WakeClosed(u).p ELSE pc[u]]
    /\ res' = [u \in Tasks |->
                IF u \in Range(waiters) THEN WakeClosed(u).r ELSE res[u]]
    /\ closedOn' = [u \in Tasks |->
                IF pc[u] \in {"waiting", "woken"} THEN "waiting"
                ELSE closedOn[u]]
    /\ last' = [NoOp EXCEPT !.op = "close", !.liveBefore = liveCount,
                            !.waitersBefore = waiters]
    /\ UNCHANGED <<conn, bad>>
    /\ UNCHANGED <<mysqlVars, pipelineVars>>

\* Closing -> Closed once no live connection is left
Closed ==
    /\ poolState = "Closing"
    /\ liveCount = 0
    /\ poolState' = "Closed"
    /\ last' = [NoOp EXCEPT !.op = "closed"]
    /\ UNCHANGED <<idle, liveCount, waiters, pc, conn, bad, res, closedOn,
                   acqLive>>
    /\ UNCHANGED <<mysqlVars, pipelineVars>>

(***************************************************************************)
(* impl Executor for &Pool (pool/executor.rs): both methods are todo!().   *)
(***************************************************************************)
ExecutorMethods == {"execute", "execute_by_ref"}

\* the outcome of <&Pool as Executor>::execute / execute_by_ref
PoolExecuteOutcome(method) == "panic"

PoolExecute(t) ==
    /\ pc[t] = "idle"
    /\ \E m \in ExecutorMethods :
         /\ res' = [res EXCEPT ![t] = PoolExecuteOutcome(m)]
         /\ pc' = [pc EXCEPT ![t] =
                      IF PoolExecuteOutcome(m) = "panic" THEN "panicked"
                      ELSE "idle"]
         /\ last' = [NoOp EXCEPT !.op = m, !.task = t,
                                 !.liveBefore = liveCount]
    /\ closedOn' = [closedOn EXCEPT ![t] = "no"]
    /\ UNCHANGED <<poolState, idle, liveCount, waiters, conn, bad, acqLive>>
    /\ UNCHANGED <<mysqlVars, pipelineVars>>

PoolNext ==
    \/ \E t \in Tasks : Acquire(t)
    \/ \E t \in Tasks : Retry(t)
    \/ \E t \in Tasks : PingOk(t)
    \/ \E t \in Tasks : PingFail(t)
    \/ \E t \in Tasks : ConnectOk(t)
    \/ \E t \in Tasks : ConnectFail(t)
    \/ \E t \in Tasks : Timeout(t)
    \/ \E t \in Tasks : IoError(t)
    \/ \E t \in Tasks : Release(t)
    \/ \E t \in Tasks : PoolExecute(t)
    \/ Close
    \/ Closed

(***************************************************************************)
(* Query building: query.rs, arguments.rs, executor.rs.                    *)
(*                                                                         *)
(* Arguments is a trait; its implementations (PgArguments, MySqlArguments) *)
(* are not among the sources, so the buffer is modelled from the           *)
(* specification (3 "Arguments"): an ordered, append-only sequence of      *)
(* values.  `capacity` is the room reserve has asked for; it is not part   *)
(* of the buffer's contents.                                               *)
(***************************************************************************)
\* the values a caller binds
BindValues == {1, 2}

\* the SQL string of the query
Sql == "SELECT $1, $2"

Max2(a, b) == IF a >= b THEN a ELSE b

\* Default::default(): the empty buffer
DefaultArguments == [values |-> <<>>, capacity |-> 0]

\* Arguments::len
len(a) == Len(a.values)

\* Arguments::is_empty: `self.len() == 0`
is_empty(a) == len(a) = 0

\* Arguments::reserve: room for at least `n` more values
reserve(a, n, size_hint) ==
    [a EXCEPT !.capacity = Max2(@, Len(a.values) + n)]

\* Arguments::add: "Add the value to the end of the arguments"
add(a, value) ==
    [values |-> Append(a.values, value),
     capacity |-> Max2(a.capacity, Len(a.values) + 1)]

\* query(sql): `Query { arguments: Default::default(), query: sql, .. }`
query(sql) == [query |-> sql, arguments |-> DefaultArguments]

\* a variant that returns the query as it was
BindLost(qry, value) == qry
\* Query::bind: `self.arguments.add(value); self`
bind(qry, value) == [qry EXCEPT !.arguments = add(@, value)]

\* a variant that adds the arguments behind the values already bound
BindAllAppends(qry, arguments) ==
    [query |-> qry.query,
     arguments |-> <<[values |-> qry.arguments.values \o arguments.values,
                      capacity |-> Max2(arguments.capacity,
                                        Len(qry.arguments.values)
                                           + Len(arguments.values))]>>]
\* Query::bind_all: the query's SQL with ImmutableArguments(arguments)
bind_all(qry, arguments) ==
    [query |-> qry.query, arguments |-> <<arguments>>]

NoQuery == [query |-> "", arguments |-> <<>>]

\* the methods the impl blocks of query.rs give a Query, by the type of its
\* arguments: bind and bind_all are in `impl Query<'q, DB>`, whose arguments
\* are DB::Arguments (lines 63-90); map, execute and fetch are in the blocks
\* for every `A` (lines 92-150)
Methods(argumentsType) ==
    IF argumentsType = "Arguments"
    THEN {"bind", "bind_all", "map", "execute", "fetch"}
    ELSE {"map", "execute", "fetch"}

\* the same for a Map: bind and bind_all are in `impl Map<'q, DB, F>` (lines
\* 152-178), the fetch operations in the block for every `A` (lines 180-251)
MapMethods(argumentsType) ==
    IF argumentsType = "Arguments"
    THEN {"bind", "bind_all", "fetch", "fetch_optional", "fetch_one",
          "fetch_all"}
    ELSE {"fetch", "fetch_optional", "fetch_one", "fetch_all"}

\* Execute for Query<DB>: `(self.query, Some(self.arguments))`
IntoParts(qry) == <<qry.query, Some(qry.arguments)>>

\* a variant that hands the executor no arguments
PartsUnprepared(qry) == <<qry.query, None>>
\* Execute for Query<DB, ImmutableArguments<DB>>:
\* `(self.query, Some(self.arguments.0))`
IntoPartsImmutable(qry) == <<qry.query, Some(qry.arguments[1])>>

\* the frames an executor writes for the parts it is given: the simple
\* query protocol for None, else parse / bind with the values / execute
WireFrames(p) ==
    IF p[2] = None
    THEN <<[kind |-> "Query", sql |-> p[1], values |-> <<>>]>>
    ELSE <<[kind |-> "Parse", sql |-> p[1], values |-> <<>>],
           [kind |-> "Bind", sql |-> "",
            values |-> (CHOOSE a \in p[2] : TRUE).values],
           [kind |-> "Execute", sql |-> "", values |-> <<>>],
           [kind |-> "Sync", sql |-> "", values |-> <<>>]>>

QueryInit ==
    /\ boundQuery = query(Sql)
    /\ args = DefaultArguments
    /\ iq = NoQuery
    /\ parts = [bound |-> None, immutable |-> None]
    /\ bindCalls = <<>>
    /\ addCalls = <<>>

\* query(sql).bind(value); bind_all takes the query by value, so that the
\* binds all precede it
Bind(value) ==
    /\ parts.bound = None
    /\ iq = NoQuery
    /\ Len(bindCalls) < MaxBinds
    /\ boundQuery' = bind(boundQuery, value)
    /\ bindCalls' = Append(bindCalls, value)
    /\ UNCHANGED <<args, iq, parts, addCalls>>
    /\ UNCHANGED <<poolVars, mysqlVars, fetchVars, codecVars>>

\* arguments.add(value) on the caller's own buffer
Add(value) ==
    /\ iq = NoQuery
    /\ Len(addCalls) < MaxBinds
    /\ args' = add(args, value)
    /\ addCalls' = Append(addCalls, value)
    /\ UNCHANGED <<boundQuery, iq, parts, bindCalls>>
    /\ UNCHANGED <<poolVars, mysqlVars, fetchVars, codecVars>>

\* arguments.reserve(n, size_hint) on the caller's own buffer
Reserve(n) ==
    /\ iq = NoQuery
    /\ args' = reserve(args, n, 4)
    /\ UNCHANGED <<boundQuery, iq, parts, bindCalls, addCalls>>
    /\ UNCHANGED <<poolVars, mysqlVars, fetchVars, codecVars>>

\* query(sql).bind(..).bind_all(arguments) on a query that holds what was
\* bound so far: the caller's buffer moves into the query
BindAll ==
    /\ iq = NoQuery
    /\ iq' = bind_all(boundQuery, args)
    /\ UNCHANGED <<boundQuery, args, parts, bindCalls, addCalls>>
    /\ UNCHANGED <<poolVars, mysqlVars, fetchVars, codecVars>>

\* the bound query is handed to an executor, which takes its parts
SubmitBound ==
    /\ parts.bound = None
    /\ parts' = [parts EXCEPT !.bound = Some(IntoParts(boundQuery))]
    /\ UNCHANGED <<boundQuery, args, iq, bindCalls, addCalls>>
    /\ UNCHANGED <<poolVars, mysqlVars, fetchVars, codecVars>>

\* the query of bind_all is handed to an executor, which takes its parts
SubmitImmutable ==
    /\ iq # NoQuery
    /\ parts.immutable = None
    /\ parts' = [parts EXCEPT !.immutable = Some(IntoPartsImmutable(iq))]
    /\ UNCHANGED <<boundQuery, args, iq, bindCalls, addCalls>>
    /\ UNCHANGED <<poolVars, mysqlVars, fetchVars, codecVars>>

QueryNext ==
    \/ \E value \in BindValues : Bind(value)
    \/ \E value \in BindValues : Add(value)
    \/ \E n \in 1..MaxBinds : Reserve(n)
    \/ BindAll
    \/ SubmitBound
    \/ SubmitImmutable

(***************************************************************************)
(* Map's fetch operations and Query::execute: query.rs.                    *)
(*                                                                         *)
(* The cursor (cursor.rs, the drivers' cursors) is not among the sources;  *)
(* it is modelled from the specification's cursor contract (4.6): next()   *)
(* yields Some(row), or None on exhaustion, or fails.  A result set is the *)
(* sequence of what next() will return: rows and errors.                   *)
(***************************************************************************)
Rows == {1, 2}

Items ==
    [ok : {TRUE}, row : Rows, err : {""}]
    \cup [ok : {FALSE}, row : {0}, err : {"Database"}]

ResultSets == UNION {[1..n -> Items] : n \in 0..MaxRows}

\* the affected-row counts a server may report
AffectedCounts == 0..2

\* crate::Result<T>
OkOf(v) == [status |-> "Ok", value |-> <<v>>, err |-> ""]
ErrOf(e) == [status |-> "Err", value |-> <<>>, err |-> e]

\* the i-th call of Cursor::next on a result set: Result<Option<Row>>
CursorNext(items, i) ==
    IF i > Len(items) THEN OkOf(None)
    ELSE IF items[i].ok THEN OkOf(Some(items[i].row))
    ELSE ErrOf(items[i].err)

\* the owned value a mapper makes of a row
Mapped(row) == row + 10

\* MapRow::map_row: `(self)(row)`, a crate::Result
map_row(row, fails) ==
    IF row \in fails THEN ErrOf("Decode") ELSE OkOf(Mapped(row))

\* a variant that takes a failing mapper for an empty result
FetchOptionalLenient(items, fails) ==
    LET val == CursorNext(items, 1)
    IN  IF val.status = "Err"
        THEN [res |-> ErrOf(val.err), pulls |-> 1, mapped |-> <<>>]
        ELSE IF val.value[1] = None
        THEN [res |-> OkOf(None), pulls |-> 1, mapped |-> <<>>]
        ELSE LET row == CHOOSE r \in val.value[1] : TRUE
                 m == map_row(row, fails)
             IN  [res |-> IF m.status = "Ok" THEN OkOf(Some(m.value[1]))
                          ELSE OkOf(None),
                  pulls |-> 1, mapped |-> <<row>>]
\* Map::fetch_optional, lines 214-217:
\* `let val = cursor.next().await?;`
\* `val.map(|row| mapper.map_row(row)).transpose()`
fetch_optional(items, fails) ==
    LET val == CursorNext(items, 1)
    IN  IF val.status = "Err"
        THEN [res |-> ErrOf(val.err), pulls |-> 1, mapped |-> <<>>]
        ELSE IF val.value[1] = None
        THEN [res |-> OkOf(None), pulls |-> 1, mapped |-> <<>>]
        ELSE LET row == CHOOSE r \in val.value[1] : TRUE
                 m == map_row(row, fails)
             IN  [res |-> IF m.status = "Ok" THEN OkOf(Some(m.value[1]))
                          ELSE ErrOf(m.err),
                  pulls |-> 1, mapped |-> <<row>>]

\* Map::fetch_one, lines 226-231: fetch_optional, and then
\* `Some(row) => Ok(row)`, `None => Err(crate::Error::NotFound)`
fetch_one(items, fails) ==
    LET fo == fetch_optional(items, fails)
    IN  IF fo.res.status = "Ok"
        THEN [fo EXCEPT !.res =
                 IF fo.res.value[1] # None
                 THEN OkOf(CHOOSE v \in fo.res.value[1] : TRUE)
                 ELSE ErrOf("NotFound")]
        ELSE fo

\* the loop of Map::fetch_all, lines 245-249:
\* `while let Some(row) = cursor.next().await? { out.push(map_row(row)?) }`
RECURSIVE FetchAllLoop(_, _, _, _, _)
FetchAllLoop(items, fails, i, out, mapped) ==
    LET val == CursorNext(items, i)
    IN  IF val.status = "Err"
        THEN [res |-> ErrOf(val.err), pulls |-> i, mapped |-> mapped]
        ELSE IF val.value[1] = None
        THEN [res |-> OkOf(out), pulls |-> i, mapped |-> mapped]
        ELSE LET row == CHOOSE r \in val.value[1] : TRUE
                 m == map_row(row, fails)
             IN  IF m.status = "Err"
                 THEN [res |-> ErrOf(m.err), pulls |-> i,
                       mapped |-> Append(mapped, row)]
                 ELSE FetchAllLoop(items, fails, i + 1,
                                   Append(out, m.value[1]),
                                   Append(mapped, row))

\* a variant that starts at the second row
FetchAllFromSecond(items, fails) == FetchAllLoop(items, fails, 2, <<>>, <<>>)
\* Map::fetch_all, lines 242-249
fetch_all(items, fails) == FetchAllLoop(items, fails, 1, <<>>, <<>>)

\* a variant that stops after the first pull
CursorAwaitOnce(items, affected) ==
    LET val == CursorNext(items, 1)
    IN  [res |-> IF val.status = "Err" THEN ErrOf(val.err)
                 ELSE OkOf(affected),
         pulls |-> 1, mapped |-> <<>>]
\* awaiting a cursor: it is driven to completion, its rows discarded, and
\* the affected-row count is the result (spec 4.6)
RECURSIVE CursorDrain(_, _, _)
CursorDrain(items, affected, i) ==
    LET val == CursorNext(items, i)
    IN  IF val.status = "Err"
        THEN [res |-> ErrOf(val.err), pulls |-> i, mapped |-> <<>>]
        ELSE IF val.value[1] = None
        THEN [res |-> OkOf(affected), pulls |-> i, mapped |-> <<>>]
        ELSE CursorDrain(items, affected, i + 1)

CursorAwait(items, affected) == CursorDrain(items, affected, 1)

\* Query::execute, line 127: `executor.fetch(self).await`
execute(items, affected) == CursorAwait(items, affected)

\* what `executor.execute(self.query)` (query.rs line 199) gives Map::fetch.
\* The Executor trait (executor.rs lines 24-27) declares execute as
\* `fn execute(&mut self, query) -> BoxFuture<crate::Result<u64>>`, which
\* discards the result set: it gives the body no cursor, there is no next()
\* to call on it, and Map::fetch does not build.  Only an Executor whose
\* execute returns the query's cursor, as Executor::fetch does, makes the
\* body run.
ExecuteReturns == {"BoxFuture<Result<u64>>", "Cursor"}

\* Map::fetch built against the Executor of executor.rs: there is no stream
NotBuilt(why) == [status |-> "not built", value |-> <<>>, err |-> why]

\* the stream of Map::fetch, lines 200-204, where execute returns a cursor,
\* resumed by one poll: the body goes once round `while let Some(next) = cursor.next().await?
\* { let mapped = self.mapper.map_row(next)?; yield mapped; }`, on the cursor
\* of the query.  It pulls the next row; a row is mapped and the mapped value
\* yielded, the stream staying open; an error of the cursor or of the mapper
\* is yielded and ends the stream; the end of the rows ends it.
fetch(items, fails, st) ==
    LET i == st.pulls + 1
        val == CursorNext(items, i)
    IN  IF val.status = "Err"
        THEN [st EXCEPT !.op = "fetch", !.pulls = i,
                        !.yielded = Append(@, ErrOf(val.err))]
        ELSE IF val.value[1] = None
        THEN [st EXCEPT !.op = "fetch", !.pulls = i]
        ELSE LET row == CHOOSE r \in val.value[1] : TRUE
                 m == map_row(row, fails)
             IN  IF m.status = "Err"
                 THEN [st EXCEPT !.op = "fetch", !.pulls = i,
                                 !.mapped = Append(@, row),
                                 !.yielded = Append(@, ErrOf(m.err))]
                 ELSE [st EXCEPT !.pulls = i,
                                 !.mapped = Append(@, row),
                                 !.yielded = Append(@, m)]

NoFetch ==
    [op |-> "none", res |-> ErrOf(""), pulls |-> 0, mapped |-> <<>>,
     affected |-> 0, yielded |-> <<>>]

Fetched(op, r, affected) ==
    [op |-> op, res |-> r.res, pulls |-> r.pulls, mapped |-> r.mapped,
     affected |-> affected, yielded |-> <<>>]

FetchIdle ==
    /\ resultSet = <<>>
    /\ failsOn = {}
    /\ fres = NoFetch

\* a query is about to be run: what the server will answer, and the mapper
FetchInit ==
    /\ resultSet \in ResultSets
    /\ failsOn \in SUBSET Rows
    /\ fres = NoFetch

FetchOptional ==
    /\ fres.op = "none"
    /\ fres' = Fetched("fetch_optional", fetch_optional(resultSet, failsOn), 0)
    /\ UNCHANGED <<resultSet, failsOn>>
    /\ UNCHANGED <<poolVars, mysqlVars, queryVars, codecVars>>

FetchOne ==
    /\ fres.op = "none"
    /\ fres' = Fetched("fetch_one", fetch_one(resultSet, failsOn), 0)
    /\ UNCHANGED <<resultSet, failsOn>>
    /\ UNCHANGED <<poolVars, mysqlVars, queryVars, codecVars>>

FetchAll ==
    /\ fres.op = "none"
    /\ fres' = Fetched("fetch_all", fetch_all(resultSet, failsOn), 0)
    /\ UNCHANGED <<resultSet, failsOn>>
    /\ UNCHANGED <<poolVars, mysqlVars, queryVars, codecVars>>

Execute ==
    /\ fres.op = "none"
    /\ \E affected \in AffectedCounts :
         fres' = Fetched("execute", execute(resultSet, affected), affected)
    /\ UNCHANGED <<resultSet, failsOn>>
    /\ UNCHANGED <<poolVars, mysqlVars, queryVars, codecVars>>

\* Map::fetch, lines 187-199.  With the execute of executor.rs it does not
\* build and the caller has no stream; with an execute that returns a cursor
\* it returns its stream, and the body of try_stream! runs only when the
\* stream is polled
Fetch ==
    /\ fres.op = "none"
    /\ \E returns \in ExecuteReturns :
         fres' = IF returns = "Cursor"
                 THEN [NoFetch EXCEPT !.op = "stream"]
                 ELSE [NoFetch EXCEPT
                         !.op = "fetch",
                         !.res = NotBuilt("no method named next")]
    /\ UNCHANGED <<resultSet, failsOn>>
    /\ UNCHANGED <<poolVars, mysqlVars, queryVars, codecVars>>

\* the stream of Map::fetch is polled once: it yields one item or ends; the
\* consumer runs between two polls
PollFetch ==
    /\ fres.op = "stream"
    /\ fres' = fetch(resultSet, failsOn, fres)
    /\ UNCHANGED <<resultSet, failsOn>>
    /\ UNCHANGED <<poolVars, mysqlVars, queryVars, codecVars>>

FetchNext ==
    \/ FetchOptional
    \/ FetchOne
    \/ FetchAll
    \/ Execute
    \/ Fetch
    \/ PollFetch

(***************************************************************************)
(* Encode and Decode: encode.rs, postgres/types/bool.rs, bytes.rs.         *)
(*                                                                         *)
(* Not among the sources, and modelled from the specification (4.2): the   *)
(* conversion of an Option<PgValue> into a PgValue (postgres/row.rs) and   *)
(* Decode for Option<T> (decode.rs).                                       *)
(***************************************************************************)
\* the Rust types with an Encode / Decode in the sources
CodecTypes == {"bool", "Vec<u8>"}

\* the byte vectors that are encoded
ByteVecs == UNION {[1..n -> {0, 1}] : n \in 0..2}

ValuesOf(ty) == IF ty = "bool" THEN BOOLEAN ELSE ByteVecs

\* what the buffer holds before a value is encoded into it
InitialBuffers == UNION {[1..n -> {7}] : n \in 0..MaxBuf}

\* a text value is a sequence of characters
TextValues ==
    {<<"\\", "x", "0", "1">>, <<"\\", "x", "0", "g">>, <<"\\", "x", "1">>,
     <<"\\", "x">>, <<"\\">>}

\* PgValue<'de>: Binary(&[u8]) or Text(&str)
PgValues ==
    [format : {"Binary"}, bytes : ByteVecs, text : {<<>>}]
    \cup [format : {"Text"}, bytes : {<<>>}, text : TextValues]

\* Option<PgValue<'de>>
RawValues == {None} \cup {Some(v) : v \in PgValues}

Panicked(why) == [status |-> "panic", value |-> <<>>, err |-> why]

\* Encode<Postgres> for bool: `buf.push(*self as u8)`
encode_bool(v, buf) == Append(buf, IF v THEN 1 ELSE 0)

\* Encode<Postgres> for [u8] and Vec<u8>: `buf.extend_from_slice(self)`
encode_bytes(v, buf) == buf \o v

\* Encode::encode of a value of type `ty`
encode(ty, v, buf) ==
    IF ty = "bool" THEN encode_bool(v, buf) ELSE encode_bytes(v, buf)

\* a variant that writes a zero byte for an absent value
EncodeNullMarker(ty, opt, buf) ==
    IF opt # None
    THEN [buf |-> encode(ty, CHOOSE v \in opt : TRUE, buf), is_null |-> "No"]
    ELSE [buf |-> Append(buf, 0), is_null |-> "Yes"]
\* Encode for Option<T>, lines 65-73:
\* `if let Some(self_) = self { self_.encode(buf); IsNull::No }`
\* `else { IsNull::Yes }`
encode_nullable(ty, opt, buf) ==
    IF opt # None
    THEN [buf |-> encode(ty, CHOOSE v \in opt : TRUE, buf), is_null |-> "No"]
    ELSE [buf |-> buf, is_null |-> "Yes"]

\* `value.try_into()`: a PgValue of an Option<PgValue>
TryIntoPgValue(raw) ==
    IF raw = None THEN ErrOf("UnexpectedNull")
    ELSE OkOf(CHOOSE v \in raw : TRUE)

HexDigits == <<"0", "1", "2", "3", "4", "5", "6", "7", "8", "9",
               "a", "b", "c", "d", "e", "f">>

IsHex(c) == \E i \in DOMAIN HexDigits : HexDigits[i] = c

HexVal(c) == (CHOOSE i \in DOMAIN HexDigits : HexDigits[i] = c) - 1

\* hex::decode: two digits a byte; an odd length or a non-digit is an error
HexDecode(t) ==
    IF Len(t) % 2 # 0 \/ \E i \in DOMAIN t : ~IsHex(t[i])
    THEN ErrOf("Decode")
    ELSE OkOf([i \in 1..(Len(t) \div 2) |->
                  16 * HexVal(t[2 * i - 1]) + HexVal(t[2 * i])])

\* Decode<Postgres> for bool, bool.rs lines 26-33: `todo!()`
decode_bool(raw) == Panicked("not yet implemented")

\* Decode<Postgres> for Vec<u8>, bytes.rs lines 40-50
decode_vec(raw) ==
    LET value == TryIntoPgValue(raw)
    IN  IF value.status = "Err" THEN value
        ELSE LET v == value.value[1]
             IN  IF v.format = "Binary" THEN OkOf(v.bytes)
                 ELSE IF Len(v.text) < 2 THEN Panicked("s[2..]")
                 ELSE HexDecode(SubSeq(v.text, 3, Len(v.text)))

\* Decode<Postgres> for &[u8], bytes.rs lines 52-63
decode_slice(raw) ==
    LET value == TryIntoPgValue(raw)
    IN  IF value.status = "Err" THEN value
        ELSE LET v == value.value[1]
             IN  IF v.format = "Binary" THEN OkOf(v.bytes)
                 ELSE ErrOf("Decode")

DecodeTargets == {"bool", "Vec<u8>", "&[u8]"}

\* Decode::decode into the target type `ty`
decode(ty, raw) ==
    CASE ty = "bool" -> decode_bool(raw)
      [] ty = "Vec<u8>" -> decode_vec(raw)
      [] OTHER -> decode_slice(raw)

\* Decode for Option<T>: None for a null, else Some of T's decode
decode_option(ty, raw) ==
    IF raw = None THEN OkOf(None)
    ELSE LET r == decode(ty, raw)
         IN  IF r.status = "Ok" THEN OkOf(Some(r.value[1])) ELSE r

\* mem::size_of_val of a value of type `ty`: a bool is one byte, a [u8] is
\* its bytes, a Vec<u8> is its pointer, capacity and length (three words of
\* eight bytes on a 64-bit target) whatever it holds
size_of_val(ty, v) ==
    CASE ty = "bool" -> 1
      [] ty = "[u8]" -> Len(v)
      [] OTHER -> 24

\* Encode::size_hint, lines 32-34, which no type of the sources overrides:
\* `mem::size_of_val(self)`
size_hint(ty, v) == size_of_val(ty, v)

\* the types with an Encode whose size_hint is the default
SizeHintTypes == CodecTypes \cup {"[u8]"}

\* a call that never returns: unconditional recursion, which ends in a stack
\* overflow or, with the tail call optimised, in an endless loop
Diverges(why) == [status |-> "diverges", value |-> <<>>, err |-> why]

\* Encode for Option<T>, size_hint, lines 75-81:
\* `if self.is_some() { (*self).size_hint() } else { 0 }`, where `*self` is
\* the Option itself, so that the call is the same call again
size_hint_option(ty, opt) ==
    IF opt # None THEN Diverges("size_hint calls itself") ELSE OkOf(0)

(***************************************************************************)
(* MySQL type ids (mysql/protocol/type.rs): the constants, type_name and   *)
(* Display.  A text is the sequence of its pieces: the name, " (0x", one   *)
(* piece for each hexadecimal digit, and ")".                              *)
(***************************************************************************)
\* TypeId(pub u8)
TypeIds == 0..255

\* the constants of type_id_consts!, lines 33-63: <<id, name>>
TypeIdConsts ==
    {<<6, "NULL">>, <<254, "CHAR">>, <<253, "VAR_CHAR">>, <<252, "TEXT">>,
     <<249, "TINY_BLOB">>, <<250, "MEDIUM_BLOB">>, <<251, "LONG_BLOB">>,
     <<1, "TINY_INT">>, <<2, "SMALL_INT">>, <<3, "INT">>, <<8, "BIG_INT">>,
     <<4, "FLOAT">>, <<5, "DOUBLE">>, <<10, "DATE">>, <<11, "TIME">>,
     <<12, "DATETIME">>, <<7, "TIMESTAMP">>}

\* TypeId::type_name, lines 15-22: the name of the constant, or "<unknown>"
type_name(id) ==
    IF \E c \in TypeIdConsts : c[1] = id
    THEN (CHOOSE c \in TypeIdConsts : c[1] = id)[2]
    ELSE "<unknown>"

\* `{:x}` of a u8: its hexadecimal digits, most significant first, with no
\* leading zero
LowerHex(n) ==
    IF n < 16 THEN <<HexDigits[n + 1]>>
    ELSE <<HexDigits[(n \div 16) + 1], HexDigits[(n % 16) + 1]>>

\* Display for TypeId, lines 26-30:
\* `write!(f, "{} ({:#x})", self.type_name(), self.0)`
Display(id) == <<type_name(id), " (0x">> \o LowerHex(id) \o <<")">>

\* TypeId::default() is TypeId::NULL (lines 65-69); nothing is formatted yet
NothingShown ==
    [id |-> (CHOOSE c \in TypeIdConsts : c[2] = "NULL")[1], text |-> <<>>]

\* a TypeId is formatted
Format(id) ==
    /\ shown' = [id |-> id, text |-> Display(id)]
    /\ UNCHANGED <<cbuf, cres>>
    /\ UNCHANGED <<poolVars, mysqlVars, queryVars, fetchVars>>

TypeIdNext == \E id \in TypeIds : Format(id)

NoCodec ==
    [op |-> "none", ty |-> "", optional |-> FALSE, input |-> None,
     before |-> <<>>, is_null |-> "", res |-> ErrOf("")]

CodecIdle ==
    /\ cbuf = <<>>
    /\ cres = NoCodec
    /\ shown = NothingShown

CodecInit ==
    /\ cbuf \in InitialBuffers
    /\ cres = NoCodec
    /\ shown = NothingShown

\* an Option<T> is encoded into the buffer
EncodeNullable(ty, opt) ==
    /\ Len(cbuf) <= MaxBuf
    /\ LET r == encode_nullable(ty, opt, cbuf)
       IN  /\ cbuf' = r.buf
           /\ cres' = [op |-> "encode_nullable", ty |-> ty,
                       optional |-> TRUE, input |-> opt, before |-> cbuf,
                       is_null |-> r.is_null, res |-> ErrOf("")]
    /\ UNCHANGED shown
    /\ UNCHANGED <<poolVars, mysqlVars, queryVars, fetchVars>>

\* a raw value of a row is decoded into `ty` or into Option<ty>
Decode(ty, optional, raw) ==
    /\ cres' = [op |-> "decode", ty |-> ty, optional |-> optional,
                input |-> raw, before |-> cbuf, is_null |-> "",
                res |-> IF optional THEN decode_option(ty, raw)
                        ELSE decode(ty, raw)]
    /\ UNCHANGED <<cbuf, shown>>
    /\ UNCHANGED <<poolVars, mysqlVars, queryVars, fetchVars>>

\* the bytes the latest encode appended, as the server would send them
\* back in the binary format
Appended == SubSeq(cbuf, Len(cres.before) + 1, Len(cbuf))

\* the value just encoded is decoded from the bytes it was encoded to
DecodeEncoded ==
    /\ cres.op = "encode_nullable"
    /\ cres.input # None
    /\ cres' = [cres EXCEPT
                  !.op = "roundtrip",
                  !.res = decode(cres.ty,
                                 Some([format |-> "Binary",
                                       bytes |-> Appended, text |-> <<>>]))]
    /\ UNCHANGED <<cbuf, shown>>
    /\ UNCHANGED <<poolVars, mysqlVars, queryVars, fetchVars>>

\* a value is asked for its size_hint and then encoded into the buffer
EncodeHinted(ty, v) ==
    /\ Len(cbuf) <= MaxBuf
    /\ cbuf' = encode(ty, v, cbuf)
    /\ cres' = [op |-> "encode", ty |-> ty, optional |-> FALSE,
                input |-> Some(v), before |-> cbuf, is_null |-> "",
                res |-> OkOf(size_hint(ty, v))]
    /\ UNCHANGED shown
    /\ UNCHANGED <<poolVars, mysqlVars, queryVars, fetchVars>>

\* an Option<T> is asked for its size_hint
OptionSizeHint(ty, opt) ==
    /\ cres' = [op |-> "size_hint", ty |-> ty, optional |-> TRUE,
                input |-> opt, before |-> cbuf, is_null |-> "",
                res |-> size_hint_option(ty, opt)]
    /\ UNCHANGED <<cbuf, shown>>
    /\ UNCHANGED <<poolVars, mysqlVars, queryVars, fetchVars>>

CodecNext ==
    \/ \E ty \in CodecTypes :
         \E opt \in {None} \cup {Some(v) : v \in ValuesOf(ty)} :
            EncodeNullable(ty, opt)
    \/ \E ty \in DecodeTargets, optional \in BOOLEAN, raw \in RawValues :
         Decode(ty, optional, raw)
    \/ DecodeEncoded
    \/ \E ty \in SizeHintTypes : \E v \in ValuesOf(ty) : EncodeHinted(ty, v)
    \/ \E ty \in CodecTypes :
         \E opt \in {None} \cup {Some(v) : v \in ValuesOf(ty)} :
            OptionSizeHint(ty, opt)

\* the pipeline before anything is built, run or encoded
PipelineIdle == QueryInit /\ FetchIdle /\ CodecIdle

PoolSpecInit == PoolInit /\ MySqlVarsIdle /\ PipelineIdle

PoolSpec == PoolSpecInit /\ [][PoolNext]_vars

\* a woken or connecting task is eventually polled again by the runtime, and
\* a task that holds a connection eventually drops it
FairPoolSpec ==
    /\ PoolSpec
    /\ \A t \in Tasks : WF_vars(Release(t))
    /\ \A t \in Tasks : WF_vars(Retry(t))
    /\ \A t \in Tasks : WF_vars(PingOk(t) \/ PingFail(t))
    /\ \A t \in Tasks : WF_vars(ConnectOk(t) \/ ConnectFail(t))

\* the handshake under every plugin, with and without TLS and a password
MySqlUrls ==
    [username : {None}, password : {None, Some(PwBytes)}, database : {None},
     ssl_mode : {"PREFERRED"}]

MySqlInit ==
    MySqlInitWith(MySqlUrls, {TRUE}, {{"PROTOCOL_41", "SSL", "PLUGIN_AUTH"}})

MySqlSpecInit == MySqlInit /\ PoolInit /\ PipelineIdle

MySqlSpec == MySqlSpecInit /\ [][MySqlNext]_vars

\* connect under every ssl-mode, with and without the `tls` feature, and
\* under every shape of URL; then the connection's ping, queries and close
ConnectUrls ==
    [username : {None}, password : {None}, database : {None},
     ssl_mode : SslModes]
    \cup [username : {None, Some("user")}, password : {None, Some(PwBytes)},
          database : {None, Some("db")}, ssl_mode : {"PREFERRED"}]

ConnectInit ==
    MySqlInitWith(ConnectUrls, BOOLEAN, {{"PROTOCOL_41", "SSL", "PLUGIN_AUTH"}})

ConnectSpecInit == ConnectInit /\ PoolInit /\ PipelineIdle

ShortReceiveKey == Len(recvd) < MaxConnectRecv /\ ReceiveKey

ShortAuthLoop == Len(recvd) < MaxConnectRecv /\ AuthLoop

ConnectNext ==
    \/ ReceiveHandshake
    \/ UpgradeIfNeeded
    \/ Respond
    \/ ShortReceiveKey
    \/ ShortAuthLoop
    \/ Initialize
    \/ Ping
    \/ BeginFetch
    \/ EndFetch
    \/ DropCursor
    \/ close

ConnectSpec == ConnectSpecInit /\ [][ConnectNext]_vars

\* building a query: bind, the caller's own Arguments, bind_all, into_parts
QuerySpecInit ==
    QueryInit /\ FetchIdle /\ CodecIdle /\ PoolInit /\ MySqlVarsIdle

QuerySpec == QuerySpecInit /\ [][QueryNext]_vars

\* one fetch operation on every result set and mapper
FetchSpecInit ==
    FetchInit /\ QueryInit /\ CodecIdle /\ PoolInit /\ MySqlVarsIdle

FetchSpec == FetchSpecInit /\ [][FetchNext]_vars

\* encoding into a buffer and decoding raw values
CodecSpecInit ==
    CodecInit /\ QueryInit /\ FetchIdle /\ PoolInit /\ MySqlVarsIdle

CodecSpec == CodecSpecInit /\ [][CodecNext]_vars

\* every TypeId is formatted
TypeIdSpecInit == PoolInit /\ MySqlVarsIdle /\ PipelineIdle

TypeIdSpec == TypeIdSpecInit /\ [][TypeIdNext]_vars

TypeOK ==
    /\ poolState \in {"Running", "Closing", "Closed"}
    /\ liveCount \in 0..(MaxSize + 1)
    /\ Range(idle) \subseteq ConnIds
    /\ Range(waiters) \subseteq Tasks

(***************************************************************************)
(* Claims about the pool (checked under PoolSpec / FairPoolSpec).          *)
(***************************************************************************)

\* C1: once close has been called, an acquire that starts afterwards and an
\* acquire that was waiting (queued, or woken and not yet run) when close
\* was called never obtains a connection: it ends with PoolClosed, and no
\* task is left in the waiter queue of a pool that is not Running.
C1_AcquireAfterCloseFails ==
    /\ \A t \in Tasks :
         closedOn[t] # "no" =>
            \/ pc[t] = "idle" /\ res[t] = "PoolClosed"
            \/ pc[t] = "woken" /\ res[t] = "pending" /\ closedOn[t] = "waiting"
    /\ poolState # "Running" =>
         /\ waiters = <<>>
         /\ \A t \in Tasks : pc[t] # "waiting"

\* a task that waited at close and a task that started after close have both
\* been refused
C1_Witness ==
    \E t, u \in Tasks :
        /\ closedOn[t] = "waiting" /\ res[t] = "PoolClosed"
        /\ closedOn[u] = "start" /\ res[u] = "PoolClosed"

\* C2: in every reachable state the number of live connections (idle, handed
\* out or being pinged, and being opened) is at most max_size, and live_count
\* counts exactly those.
C2_LiveAtMostMaxSize ==
    /\ LiveConnections <= MaxSize
    /\ liveCount = LiveConnections

\* the cap is reached while another task is blocked in the waiter queue
C2_Witness ==
    /\ LiveConnections = MaxSize
    /\ waiters # <<>>
    /\ Opening # {}

\* C3: right after a healthy connection is dropped (released), live_count is
\* what the release found, it equals the value it had right after the task's
\* acquire whenever no other operation changed live_count in between, and
\* the connection is in the idle queue.
C3_AcquireThenDrop ==
    (last.op = "release" /\ last.healthy) =>
        /\ liveCount = last.liveBefore
        /\ last.acqLive # -1 => liveCount = last.acqLive
        /\ last.conn \in Range(idle)

\* an undisturbed acquire-then-drop has happened
C3_Witness ==
    /\ last.op = "release" /\ last.healthy
    /\ last.acqLive = liveCount
    /\ liveCount > 0
    /\ last.conn \in Range(idle)

\* C4 (as amended): a connection released in an error state is dropped,
\* live_count goes down by exactly one and no waiter is woken; a healthy one
\* is pushed to the back of the idle queue, live_count is unchanged and
\* exactly the first waiter (if any) is woken, the others stay queued.  The
\* woken waiter runs the acquisition again: it takes the head of the idle
\* queue if there is one, and queues again if the queue was emptied by
\* another acquirer while the pool is full.
C4_ReleaseEffect ==
    /\ (last.op = "release" /\ ~last.healthy) =>
          /\ liveCount = last.liveBefore - 1
          /\ last.conn \notin UsedConns
          /\ waiters = last.waitersBefore
          /\ \A w \in Range(last.waitersBefore) : pc[w] = "waiting"
    /\ (last.op = "release" /\ last.healthy) =>
          /\ liveCount = last.liveBefore
          /\ idle # <<>> /\ idle[Len(idle)] = last.conn
          /\ IF last.waitersBefore = <<>>
             THEN waiters = <<>>
             ELSE /\ waiters = Tail(last.waitersBefore)
                  /\ pc[Head(last.waitersBefore)] = "woken"
                  /\ \A w \in Range(waiters) : pc[w] = "waiting"
    /\ (last.op = "retry" /\ last.healthy) =>
          /\ last.conn # 0 =>
                pc[last.task] = "checking" /\ conn[last.task] = last.conn
          /\ (last.conn = 0 /\ last.liveBefore >= MaxSize) =>
                pc[last.task] = "waiting" /\ last.task \in Range(waiters)

\* a healthy release has woken the first of two waiters
C4_Witness ==
    /\ last.op = "release" /\ last.healthy
    /\ Len(last.waitersBefore) = 2
    /\ pc[Head(last.waitersBefore)] = "woken"

\* C4 as stated: a waiter woken by a release eventually obtains a connection
\* (unless the pool is closed or opening a connection fails).
C4_WokenWaiterObtains ==
    \A t \in Tasks :
        (pc[t] = "woken") ~>
            (pc[t] = "holding" \/ poolState # "Running"
                \/ res[t] = "ConnectError")

\* C5: a query executed through `&Pool` (execute or execute_by_ref) returns a
\* cursor and does not abort the program.
C5_PoolExecutorDoesNotAbort ==
    \A t \in Tasks : res[t] # "panic" /\ pc[t] # "panicked"

(***************************************************************************)
(* Claims about the MySQL connection phase (checked under MySqlSpec).      *)
(***************************************************************************)
\* the packets received while establish ran, and those sent by it
HandshakePhase == hpc \in {"handshake", "upgrade", "respond", "key_first",
                           "key_switch", "key_continue", "loop"}

FirstByte(packet) == IF Len(packet) = 0 THEN -1 ELSE packet[1]

\* the plugin and salt in force after the first k received packets: those
\* of the Handshake, replaced by each auth switch read in the loop
RECURSIVE AuthAfter(_)
AuthAfter(k) ==
    IF k = 0
    THEN [auth_plugin |-> handshake.auth_plugin,
          auth_plugin_data |-> handshake.auth_plugin_data]
    ELSE IF /\ recvd[k].at = "loop"
            /\ FirstByte(recvd[k].bytes) = 254
            /\ AuthSwitchRead(recvd[k].bytes).ok
         THEN [auth_plugin |-> AuthSwitchRead(recvd[k].bytes).auth_plugin,
               auth_plugin_data |->
                   AuthSwitchRead(recvd[k].bytes).auth_plugin_data]
         ELSE AuthAfter(k - 1)

LastSent == sent[Len(sent)]

\* the last step sent exactly one packet: a bare payload `body`
SentRaw(body) ==
    /\ Len(sent) = hlast.sentLen + 1
    /\ LastSent.kind = "raw"
    /\ LastSent.body = body

\* C6: no packet the server sends during the handshake, the public-key
\* exchange or ping makes the driver panic: every operation returns Ok or Err.
C6_DriversNeverPanic ==
    /\ outcome.status # "panic"
    /\ pingRes.status # "panic"

\* C7: in the auth loop a packet starting with 0x00 ends establish with Ok and
\* one starting with 0xFF ends it with a Database error; it is the last
\* packet establish receives, and establish sends nothing after it.
C7_TerminalPackets ==
    \A i \in 1..Len(recvd) :
        (recvd[i].at = "loop" /\ FirstByte(recvd[i].bytes) \in {0, 255}) =>
            /\ ~HandshakePhase
            /\ estAt.recvd = i
            /\ outcome = (IF FirstByte(recvd[i].bytes) = 0 THEN Ok
                          ELSE Err("Database", "err packet"))
            /\ (FirstByte(recvd[i].bytes) = 0) =
                  (hpc \in {"established", "connected", "init_failed",
                            "panicked"})
            /\ \A j \in (i + 1)..Len(recvd) : recvd[j].at = "ping"
            /\ \A j \in (estAt.sent + 1)..Len(sent) :
                  sent[j].kind \in {"ComQuery", "ComPing"}
            /\ (hlast.step = "loop" /\ i = Len(recvd)) =>
                  Len(sent) = hlast.sentLen

\* an ERR packet has ended establish after an auth switch, and an OK packet
\* has ended another run whose connection was then pinged
C7_Witness ==
    /\ Len(recvd) >= 2
    /\ recvd[Len(recvd)].at = "loop"
    /\ FirstByte(recvd[Len(recvd)].bytes) = 255
    /\ FirstByte(recvd[1].bytes) = 254
    /\ outcome.status = "Err"

\* C8: on a (well-formed) AUTH_SWITCH packet the client replaces plugin and
\* salt by the packet's, computes the response from the new plugin and new
\* salt, sends it and stays in the loop; after any number of switches the
\* plugin and salt in use are those of the most recent one, and the RSA
\* full authentication that follows a switch or a fast-auth continue uses
\* that salt.
C8_AuthSwitch ==
    /\ hpc # "handshake" =>
          /\ auth_plugin = AuthAfter(Len(recvd)).auth_plugin
          /\ auth_plugin_data = AuthAfter(Len(recvd)).auth_plugin_data
    /\ (/\ hlast.step = "loop"
        /\ FirstByte(hlast.packet) = 254
        /\ AuthSwitchRead(hlast.packet).ok) =>
          LET auth == AuthSwitchRead(hlast.packet) IN
          /\ auth_plugin = auth.auth_plugin
          /\ auth_plugin_data = auth.auth_plugin_data
          /\ outcome = Pending
          /\ IF auth.auth_plugin # "Sha256Password"
             THEN /\ SentRaw(Scramble(auth.auth_plugin, Password(url),
                                      auth.auth_plugin_data))
                  /\ hpc = "loop"
             ELSE IF isTls
             THEN /\ SentRaw(Bytes(to_asciz(Password(url))))
                  /\ hpc = "loop"
             ELSE /\ SentRaw(Bytes(<<1>>))
                  /\ hpc = "key_switch"
    /\ (/\ hlast.step = "key"
        /\ hlast.hpc \in {"key_switch", "key_continue"}
        /\ Len(hlast.packet) > 0
        /\ RsaKeyValid(Tail(hlast.packet))) =>
          /\ SentRaw(RsaEncrypt(Tail(hlast.packet),
                 xor_eq(to_asciz(Password(url)),
                        AuthAfter(Len(recvd)).auth_plugin_data)))
          /\ hpc = "loop"
          /\ outcome = Pending
    /\ (hlast.step = "loop" /\ FirstByte(hlast.packet) = 1) =>
          (outcome = HandleUnexpected) =
              (AuthAfter(Len(recvd)).auth_plugin # "CachingSha2Password")

\* two auth switches in a row, the second to sha256_password with another
\* salt, and the RSA-encrypted password sent after the key arrived
C8_Witness ==
    /\ Len(recvd) = 3
    /\ recvd[1].at = "loop" /\ FirstByte(recvd[1].bytes) = 254
    /\ recvd[2].at = "loop" /\ FirstByte(recvd[2].bytes) = 254
    /\ AuthAfter(1).auth_plugin_data # AuthAfter(2).auth_plugin_data
    /\ AuthAfter(1).auth_plugin # AuthAfter(2).auth_plugin
    /\ AuthAfter(2).auth_plugin_data # handshake.auth_plugin_data
    /\ hlast.step = "key" /\ hlast.hpc = "key_switch"
    /\ hpc = "loop"
    /\ LastSent.body.form = "rsa"

\* the packet received in the loop just before the last one was a
\* FAST_AUTH_OK taken under caching_sha2_password
AfterFastAuthOk ==
    /\ hlast.step = "loop"
    /\ Len(recvd) >= 2
    /\ recvd[Len(recvd) - 1].at = "loop"
    /\ recvd[Len(recvd) - 1].bytes = <<1, 3>>
    /\ hlast.plugin = "CachingSha2Password"

\* C9: after a 0x01 0x03 packet under caching_sha2_password the client sends
\* nothing and expects OK: the packet after it establishes the connection or
\* ends establish, and never makes the client send authentication data or
\* keep the handshake going.
C9_FastAuthOkExpectsOk ==
    /\ (/\ hlast.step = "loop"
        /\ hlast.packet = <<1, 3>>
        /\ hlast.plugin = "CachingSha2Password") =>
          /\ Len(sent) = hlast.sentLen
          /\ hpc = "loop"
          /\ outcome = Pending
    /\ AfterFastAuthOk =>
          /\ Len(sent) = hlast.sentLen
          /\ ~HandshakePhase
          /\ (hpc = "established") = (FirstByte(hlast.packet) = 0)

\* C10: after a 0x01 0x04 packet under caching_sha2_password the client does
\* the full authentication: on TLS it sends the NUL-terminated password, off
\* TLS the public key request 0x02 and, once the key is there, the password
\* encrypted with it; it then remains in the loop.  A 0x01 packet with
\* another sub-byte fails establish with a Protocol error.
C10_FastAuthContinue ==
    /\ (/\ hlast.step = "loop"
        /\ hlast.plugin = "CachingSha2Password"
        /\ hlast.packet = <<1, 4>>) =>
          /\ outcome = Pending
          /\ auth_plugin = hlast.plugin /\ auth_plugin_data = hlast.data
          /\ IF isTls
             THEN /\ SentRaw(Bytes(to_asciz(Password(url))))
                  /\ hpc = "loop"
             ELSE /\ SentRaw(Bytes(<<2>>))
                  /\ hpc = "key_continue"
    /\ (/\ hlast.step = "key"
        /\ hlast.hpc = "key_continue"
        /\ Len(hlast.packet) > 0
        /\ RsaKeyValid(Tail(hlast.packet))) =>
          /\ SentRaw(RsaEncrypt(Tail(hlast.packet),
                 xor_eq(to_asciz(Password(url)), auth_plugin_data)))
          /\ hpc = "loop"
          /\ outcome = Pending
    /\ (/\ hlast.step = "loop"
        /\ hlast.plugin = "CachingSha2Password"
        /\ FirstByte(hlast.packet) = 1
        /\ Len(hlast.packet) >= 2
        /\ hlast.packet[2] \notin {3, 4}) =>
          /\ outcome.status = "Err" /\ outcome.kind = "Protocol"
          /\ hpc = "failed"
          /\ Len(sent) = hlast.sentLen

\* off TLS, a fast-auth continue was answered by the key request 0x02 and,
\* the key received, by the encrypted password; the client is in the loop
C10_Witness ==
    /\ hlast.step = "key" /\ hlast.hpc = "key_continue"
    /\ ~isTls
    /\ hpc = "loop"
    /\ sent[Len(sent) - 1].body = Bytes(<<2>>)
    /\ LastSent.body.form = "rsa"
    /\ Password(url) = PwBytes

\* C11: in the auth loop a packet whose first byte is none of 0x00, 0xFF,
\* 0xFE (and is not 0x01 under caching_sha2_password) makes establish fail
\* with the Protocol "unexpected" error, a 0x01 packet under another plugin
\* included; it is the last packet of the handshake, nothing is sent after
\* it, and the connection is never established.
C11_UnexpectedPackets ==
    \A i \in 1..Len(recvd) :
        (/\ recvd[i].at = "loop"
         /\ Len(recvd[i].bytes) > 0
         /\ FirstByte(recvd[i].bytes) \notin {0, 255, 254}
         /\ ~(/\ FirstByte(recvd[i].bytes) = 1
              /\ AuthAfter(i - 1).auth_plugin = "CachingSha2Password")) =>
            /\ i = Len(recvd)
            /\ estAt.recvd = i
            /\ estAt.sent = Len(sent)
            /\ outcome = HandleUnexpected
            /\ outcome.status = "Err" /\ outcome.kind = "Protocol"
            /\ hpc = "failed"
            /\ ~is_ready
            /\ (hlast.step = "loop") /\ Len(sent) = hlast.sentLen

\* after an auth switch away from caching_sha2_password, a 0x01 0x03 packet
\* has ended establish with the error
C11_Witness ==
    /\ Len(recvd) = 2
    /\ handshake.auth_plugin = "CachingSha2Password"
    /\ FirstByte(recvd[1].bytes) = 254
    /\ AuthAfter(1).auth_plugin = "MySqlNativePassword"
    /\ recvd[2] = [at |-> "loop", bytes |-> <<1, 3>>]
    /\ outcome = HandleUnexpected

\* the step just taken was the first half of a full authentication: the
\* call of rsa_encrypt_with_nonce under `plugin`
FullAuthStarted(plugin) ==
    \/ /\ hlast.step = "respond"
       /\ plugin = "Sha256Password"
       /\ hlast.plugin = "Sha256Password"
    \/ /\ hlast.step = "loop"
       /\ FirstByte(hlast.packet) = 254
       /\ AuthSwitchRead(hlast.packet).ok
       /\ plugin = "Sha256Password"
       /\ AuthSwitchRead(hlast.packet).auth_plugin = "Sha256Password"
    \/ /\ hlast.step = "loop"
       /\ hlast.packet = <<1, 4>>
       /\ plugin = "CachingSha2Password"
       /\ hlast.plugin = "CachingSha2Password"

\* the auth response the last sent packet carries
LastResponse ==
    IF LastSent.kind = "HandshakeResponse" THEN LastSent.auth_response
    ELSE IF LastSent.kind = "raw" THEN LastSent.body
    ELSE Bytes(<<>>)

KeyStates == {"key_first", "key_switch", "key_continue"}

\* C12: the full authentication (sha256_password; caching_sha2_password on
\* continue) sends, on a TLS stream, the NUL-terminated password and no
\* public key request; off TLS it sends one single-byte request (0x01 for
\* sha256_password, 0x02 for caching_sha2_password), receives one packet,
\* the key, and sends the RSA encryption of the NUL-terminated password
\* XORed with the salt.
C12_FullAuthentication ==
    /\ \A plugin \in {"Sha256Password", "CachingSha2Password"} :
          FullAuthStarted(plugin) =>
              /\ Len(sent) = hlast.sentLen + 1
              /\ (hlast.step = "respond") => Len(recvd) = 0
              /\ IF isTls
                 THEN /\ LastResponse = Bytes(to_asciz(Password(url)))
                      /\ hpc = "loop"
                 ELSE /\ LastSent.kind = "raw"
                      /\ LastSent.body =
                            Bytes(IF plugin = "Sha256Password" THEN <<1>>
                                  ELSE <<2>>)
                      /\ hpc \in KeyStates
    /\ hpc \in KeyStates =>
          /\ ~isTls
          /\ LastSent.kind = "raw"
          /\ LastSent.body \in {Bytes(<<1>>), Bytes(<<2>>)}
          /\ (LastSent.body = Bytes(<<1>>)) = (auth_plugin = "Sha256Password")
          /\ (LastSent.body = Bytes(<<2>>)) =
                (auth_plugin = "CachingSha2Password")
    /\ hlast.step = "key" =>
          /\ hlast.hpc \in KeyStates
          /\ recvd[Len(recvd)] = [at |-> "key", bytes |-> hlast.packet]
          /\ hlast.sentLen >= 1
          /\ sent[hlast.sentLen].kind = "raw"
          /\ sent[hlast.sentLen].body \in {Bytes(<<1>>), Bytes(<<2>>)}
          /\ (Len(recvd) > 1) => recvd[Len(recvd) - 1].at = "loop"
          /\ (Len(hlast.packet) > 0 /\ RsaKeyValid(Tail(hlast.packet))) =>
                /\ Len(sent) = hlast.sentLen + 1
                /\ LastResponse =
                      RsaEncrypt(Tail(hlast.packet),
                          xor_eq(to_asciz(Password(url)), auth_plugin_data))
                /\ hpc = "loop"
                /\ outcome = Pending
    /\ \A j \in 1..Len(sent) :
          (isTls /\ sent[j].kind = "raw") =>
              sent[j].body \notin {Bytes(<<1>>), Bytes(<<2>>)}

\* off TLS, sha256_password from the Handshake on: the request 0x01, the
\* key, and the HandshakeResponse carrying the encrypted password
C12_Witness ==
    /\ hlast.step = "key" /\ hlast.hpc = "key_first"
    /\ ~isTls
    /\ Password(url) = PwBytes
    /\ Len(sent) = 2 /\ Len(recvd) = 1
    /\ sent[1].kind = "raw" /\ sent[1].body = Bytes(<<1>>)
    /\ LastSent.kind = "HandshakeResponse"
    /\ LastSent.auth_response.form = "rsa"
    /\ LastSent.auth_response.plain = xor_eq(to_asciz(PwBytes), HandshakeSalt)
    /\ hpc = "loop"

(***************************************************************************)
(* Claims about connect, ping and close (ConnectSpec, MySqlSpec).          *)
(***************************************************************************)
HandshakeKinds == {"SSLRequest", "HandshakeResponse", "raw"}

SentOfKind(kind) == {j \in 1..Len(sent) : sent[j].kind = kind}

\* C13: with ssl-mode DISABLED no TLS upgrade is attempted; with PREFERRED
\* the handshake goes on whether or not the upgrade succeeded; with
\* REQUIRED, VERIFY_CA or VERIFY_IDENTITY a stream that is not TLS after the
\* upgrade step makes connect fail, and no HandshakeResponse is sent.
C13_TlsUpgradeDecision ==
    /\ url.ssl_mode = "DISABLED" =>
          ~isTls /\ SentOfKind("SSLRequest") = {}
    /\ ~tlsFeature =>
          ~isTls /\ SentOfKind("SSLRequest") = {}
    /\ (hlast.step = "upgrade" /\ url.ssl_mode \in {"DISABLED", "PREFERRED"})
          => /\ hpc = "respond"
             /\ outcome = Pending
    /\ (/\ hpc \notin {"handshake", "upgrade"}
        /\ url.ssl_mode \in {"REQUIRED", "VERIFY_CA", "VERIFY_IDENTITY"}
        /\ ~isTls) =>
          /\ hpc = "failed"
          /\ outcome.status = "Err"
          /\ SentOfKind("HandshakeResponse") = {}
          /\ ~is_ready
          /\ recvd = <<>>
    /\ isTls => SentOfKind("SSLRequest") # {}
    /\ SentOfKind("SSLRequest") # {} =>
          /\ tlsFeature
          /\ "SSL" \in handshake.server_capabilities
          /\ sent[1].kind = "SSLRequest"

\* PREFERRED: the upgrade was attempted and failed, the handshake went on in
\* the clear and connect returned a connection
C13_Witness ==
    /\ url.ssl_mode = "PREFERRED"
    /\ SentOfKind("SSLRequest") # {}
    /\ ~isTls
    /\ hpc = "connected"
    /\ SentOfKind("HandshakeResponse") # {}

\* REQUIRED: the server does not offer TLS and connect has failed
C13_WitnessRequired ==
    /\ url.ssl_mode = "REQUIRED"
    /\ tlsFeature
    /\ "SSL" \notin handshake.server_capabilities
    /\ hpc = "failed"

\* C14: connect returns a connection only after establish returned Ok and
\* then the one initialization statement (sql_mode, time_zone, NAMES)
\* succeeded; if either fails no connection is returned; the connection
\* returned is ready and its statement cache is empty.
C14_Initialization ==
    /\ hlast.step = "init" =>
          /\ hlast.hpc = "established"
          /\ outcome = Ok
          /\ (hpc = "connected") = (hlast.packet = <<0>>)
          /\ (hpc = "init_failed") = (hlast.packet # <<0>>)
          /\ hpc = "connected" => is_ready /\ cache_statement = {}
    /\ hpc \in {"connected", "closed", "panicked"} =>
          /\ outcome = Ok
          /\ \E j \in 1..Len(sent) :
                /\ SentOfKind("ComQuery") = {j}
                /\ sent[j].sql = InitSql
                /\ j = estAt.sent + 1
                /\ \A k \in 1..(j - 1) : sent[k].kind \in HandshakeKinds
                /\ \A k \in (j + 1)..Len(sent) : sent[k].kind = "ComPing"
    /\ outcome.status \in {"Err", "panic"} =>
          /\ hpc = "failed"
          /\ ~is_ready
          /\ SentOfKind("ComQuery") = {}
    /\ hpc \in {"failed", "init_failed"} =>
          /\ ~is_ready
          /\ SentOfKind("ComPing") = {}
    /\ is_ready => hpc \in {"connected", "closed", "panicked"}
    /\ Len(InitSql) = 3

\* the handshake ended with OK, the statement ran, the connection is there
C14_Witness ==
    /\ hlast.step = "init"
    /\ hpc = "connected"
    /\ is_ready
    /\ Len(recvd) >= 2

\* the handshake ended with OK but the statement failed: no connection
C14_WitnessInitFails ==
    /\ hlast.step = "init"
    /\ hlast.packet = <<255>>
    /\ hpc = "init_failed"

\* the auth response the HandshakeResponse must carry: computed from the
\* plugin and salt of the server's Handshake
FirstAuthResponse ==
    IF handshake.auth_plugin # "Sha256Password"
    THEN {Scramble(handshake.auth_plugin, UnwrapOr(url.password, <<>>),
                   handshake.auth_plugin_data)}
    ELSE IF isTls
    THEN {Bytes(Append(UnwrapOr(url.password, <<>>), 0))}
    ELSE {RsaEncrypt(Tail(e.bytes),
              xor_eq(Append(UnwrapOr(url.password, <<>>), 0),
                     handshake.auth_plugin_data)) :
          e \in {recvd[k] : k \in 1..Min({1, Len(recvd)})}}

\* C15: the HandshakeResponse carries the URL's username or "root", the
\* URL's database or none, the plugin of the server's Handshake, the auth
\* response computed from that plugin and salt and the URL's password (empty
\* if none), max_packet_size 1024 and collation 224; it is sent once.
C15_HandshakeResponse ==
    /\ \A j \in SentOfKind("HandshakeResponse") :
          /\ sent[j].username =
                (IF url.username = None THEN "root"
                 ELSE CHOOSE u \in url.username : TRUE)
          /\ sent[j].database = url.database
          /\ sent[j].auth_plugin = handshake.auth_plugin
          /\ sent[j].auth_response \in FirstAuthResponse
          /\ sent[j].max_packet_size = 1024
          /\ sent[j].client_collation = 224
          /\ SentOfKind("HandshakeResponse") = {j}
          /\ \A k \in 1..(j - 1) :
                \/ sent[k].kind = "SSLRequest"
                \/ sent[k].kind = "raw" /\ sent[k].body = Bytes(<<1>>)
    /\ hpc \in {"loop", "key_switch", "key_continue", "established",
                 "connected"} =>
          SentOfKind("HandshakeResponse") # {}

\* no username, a database and a password in the URL: "root", the database
\* and the scramble of the password were sent
C15_Witness ==
    /\ url.username = None /\ url.database = Some("db")
    /\ url.password = Some(PwBytes)
    /\ \E j \in SentOfKind("HandshakeResponse") :
          /\ sent[j].username = "root"
          /\ sent[j].database = Some("db")
          /\ sent[j].auth_response.form = "scramble"
          /\ sent[j].auth_response.password = PwBytes

\* no password in the URL, sha256_password off TLS: the encrypted empty
\* password was sent for the user of the URL
C15_WitnessNoPassword ==
    /\ url.username = Some("user") /\ url.password = None
    /\ \E j \in SentOfKind("HandshakeResponse") :
          /\ sent[j].username = "user"
          /\ sent[j].auth_response.form = "rsa"
          /\ sent[j].auth_response.plain = xor_eq(<<0>>, HandshakeSalt)

PingsReceived == {k \in 1..Len(recvd) : recvd[k].at = "ping"}

\* C16: ping sends one command packet and consumes one response; it returns
\* Ok if the response starts with 0x00 or 0xFE, a Database error if it
\* starts with 0xFF and a Protocol error for any other first byte.
C16_Ping ==
    /\ Cardinality(SentOfKind("ComPing")) = pings
    /\ Cardinality(PingsReceived) = pings
    /\ hlast.step = "ping" =>
          /\ Len(sent) = hlast.sentLen + 1
          /\ LastSent.kind = "ComPing"
          /\ recvd[Len(recvd)].at = "ping"
          /\ LET b == FirstByte(recvd[Len(recvd)].bytes) IN
                /\ b \in {0, 254} => pingRes = Ok
                /\ b = 255 =>
                      pingRes.status = "Err" /\ pingRes.kind = "Database"
                /\ b \notin {-1, 0, 254, 255} =>
                      pingRes.status = "Err" /\ pingRes.kind = "Protocol"
    /\ pings = 0 => pingRes = Pending

\* a ping was answered by a packet starting with 0xFE and returned Ok
C16_Witness ==
    /\ hlast.step = "ping"
    /\ FirstByte(recvd[Len(recvd)].bytes) = 254
    /\ pingRes = Ok

\* C17: a ping on a connection that is not ready returns an error and
\* writes nothing to the stream.
C17_PingNotReady ==
    (hlast.step = "ping" /\ ~is_ready) =>
        /\ pingRes.status = "Err"
        /\ Len(sent) = hlast.sentLen

\* C18: close makes a best-effort attempt to send COM_QUIT, then flushes the
\* socket, then shuts it down.
C18_CloseOrder ==
    hpc = "closed" =>
        /\ SentOfKind("ComQuit") # {}
        /\ closeLog # <<>>
        /\ closeLog[1].op = "flush"
        /\ Len(closeLog) = 2 => closeLog[2].op = "shutdown"

\* C19: when the shutdown of the socket fails, close still returns Ok.
C19_ShutdownFailsSilently ==
    (/\ hpc = "closed"
     /\ Len(closeLog) = 2
     /\ closeLog[1].ok
     /\ closeLog[2].op = "shutdown" /\ ~closeLog[2].ok) =>
        closeRes = Ok

\* C20: a command (ping, the initialization query) is sent with sequence id
\* 0; no packet sent by establish resets the counter: from the server's
\* Handshake (id 0) on, each packet sent or received in the handshake takes
\* the next id, the TLS request included.
C20_SequenceCounter ==
    /\ \A j \in SentOfKind("ComPing") : sent[j].seq = 0
    /\ \A j \in SentOfKind("ComQuery") : sent[j].seq = 0
    /\ \A j \in 1..Len(sent) :
          sent[j].kind \in HandshakeKinds =>
              /\ sent[j].seq >= 1
              /\ \A k \in 1..(j - 1) : sent[k].seq < sent[j].seq
    /\ HandshakePhase =>
          seqNo = (IF hpc = "handshake" THEN 0
                   ELSE 1 + Len(sent) + Len(recvd))
    /\ (/\ hlast.step \in {"upgrade", "respond", "loop", "key"}
        /\ Len(sent) = hlast.sentLen + 1) =>
          LastSent.seq = Len(sent) + Len(recvd)
    /\ hlast.step = "ping" => seqNo = 2

\* after a TLS request, a HandshakeResponse and an auth switch response with
\* ids 1, 2 and 4, a ping went out with id 0
C20_Witness ==
    /\ Len(sent) >= 5
    /\ sent[1].kind = "SSLRequest" /\ sent[1].seq = 1
    /\ sent[2].kind = "HandshakeResponse" /\ sent[2].seq = 2
    /\ sent[3].kind = "raw" /\ sent[3].seq = 4
    /\ LastSent.kind = "ComPing" /\ LastSent.seq = 0
    /\ hlast.step = "ping"

(***************************************************************************)
(* Claims about query building (checked under QuerySpec).                  *)
(***************************************************************************)

\* C21: after n bind calls on a query made by query(sql) the argument buffer
\* has length n and holds the bound values in call order; is_empty holds
\* exactly when n is 0; the same holds of a buffer filled by add, and
\* reserve changes neither its length nor its order.
C21_BindOrder ==
    /\ len(boundQuery.arguments) = Len(bindCalls)
    /\ boundQuery.arguments.values = bindCalls
    /\ is_empty(boundQuery.arguments) <=> (Len(bindCalls) = 0)
    /\ len(args) = Len(addCalls)
    /\ args.values = addCalls
    /\ is_empty(args) <=> (Len(addCalls) = 0)

\* two different values were bound, first 2 then 1, and the caller's buffer
\* holds two values with more room reserved than it has values
C21_Witness ==
    /\ bindCalls = <<2, 1>>
    /\ boundQuery.arguments.values = <<2, 1>>
    /\ addCalls = <<1, 2>>
    /\ args.capacity > Len(args.values)

\* C22: when the buffer given to bind_all was built by adding the values
\* that were bound, in the same order, the executor is handed the same
\* parts for the query of bind and for the query of bind_all: the same SQL
\* and Some of a buffer with the same values, hence the same wire frames.
C22_BindVersusBindAll ==
    (/\ parts.bound # None
     /\ parts.immutable # None
     /\ addCalls = bindCalls) =>
        LET pb == CHOOSE x \in parts.bound : TRUE
            pi == CHOOSE x \in parts.immutable : TRUE
        IN  /\ pb[1] = pi[1]
            /\ pb[1] = Sql
            /\ pb[2] # None /\ pi[2] # None
            /\ \A a \in pb[2], b \in pi[2] :
                  /\ a.values = b.values
                  /\ a.values = bindCalls
            /\ WireFrames(pb) = WireFrames(pi)

\* both queries were submitted with the values 1 then 2
C22_Witness ==
    /\ parts.bound # None
    /\ parts.immutable # None
    /\ bindCalls = <<1, 2>>
    /\ addCalls = <<1, 2>>

(***************************************************************************)
(* Claims about the fetch operations (checked under FetchSpec).            *)
(***************************************************************************)

\* C23: fetch_one returns what fetch_optional returns followed by an
\* emptiness check: Ok(v) for Ok(Some(v)), the RowNotFound error for
\* Ok(None), and the same error for Err.
C23_FetchOneIdentity ==
    fres.op = "fetch_one" =>
        LET fo == fetch_optional(resultSet, failsOn).res
        IN  fres.res =
               IF fo.status = "Ok"
               THEN IF fo.value[1] # None
                    THEN OkOf(CHOOSE v \in fo.value[1] : TRUE)
                    ELSE ErrOf("RowNotFound")
               ELSE fo

\* C24: fetch_optional pulls the cursor exactly once and never a second
\* time: an empty result gives Ok(None) without a call of the mapper, a
\* first row gives the mapper's result on it (Err if the mapper fails), and
\* a failing first pull gives the cursor's error.
C24_FetchOptional ==
    fres.op = "fetch_optional" =>
        /\ fres.pulls = 1
        /\ resultSet = <<>> =>
              /\ fres.res = OkOf(None)
              /\ fres.mapped = <<>>
        /\ (resultSet # <<>> /\ ~resultSet[1].ok) =>
              /\ fres.res = ErrOf(resultSet[1].err)
              /\ fres.mapped = <<>>
        /\ (resultSet # <<>> /\ resultSet[1].ok) =>
              /\ fres.mapped = <<resultSet[1].row>>
              /\ fres.res = IF resultSet[1].row \in failsOn
                            THEN ErrOf("Decode")
                            ELSE OkOf(Some(Mapped(resultSet[1].row)))

\* a result set of two rows: only the first was pulled and mapped
C24_Witness ==
    /\ fres.op = "fetch_optional"
    /\ Len(resultSet) = 2
    /\ resultSet[1].ok /\ resultSet[2].ok
    /\ resultSet[1].row \notin failsOn
    /\ fres.res = OkOf(Some(Mapped(resultSet[1].row)))
    /\ fres.pulls = 1

\* a first row on which the mapper fails
C24_WitnessMapperFails ==
    /\ fres.op = "fetch_optional"
    /\ resultSet # <<>>
    /\ resultSet[1].ok
    /\ resultSet[1].row \in failsOn
    /\ fres.res = ErrOf("Decode")

\* the positions of a result set at which the cursor or the mapper fails
Failing ==
    {i \in 1..Len(resultSet) :
        ~resultSet[i].ok \/ resultSet[i].row \in failsOn}

\* C25: fetch_all returns the mapped rows of the whole result set in the
\* cursor's order; on the first error of the cursor or of the mapper it
\* stops pulling and returns that error, with no partial result.
C25_FetchAll ==
    fres.op = "fetch_all" =>
        IF Failing = {}
        THEN /\ fres.res = OkOf([i \in 1..Len(resultSet) |->
                                    Mapped(resultSet[i].row)])
             /\ fres.pulls = Len(resultSet) + 1
             /\ fres.mapped = [i \in 1..Len(resultSet) |-> resultSet[i].row]
        ELSE LET k == Min(Failing)
             IN  /\ fres.res = ErrOf(IF resultSet[k].ok THEN "Decode"
                                     ELSE resultSet[k].err)
                 /\ fres.res.value = <<>>
                 /\ fres.pulls = k
                 /\ Len(fres.mapped) <= k

\* rows 2 then 1 were collected in that order
C25_Witness ==
    /\ fres.op = "fetch_all"
    /\ Len(resultSet) = 2
    /\ resultSet[1].row = 2 /\ resultSet[2].row = 1
    /\ fres.res = OkOf(<<Mapped(2), Mapped(1)>>)

\* an error in first place with a row behind it: nothing after it is pulled
C25_WitnessError ==
    /\ fres.op = "fetch_all"
    /\ Len(resultSet) = 2
    /\ ~resultSet[1].ok /\ resultSet[2].ok
    /\ fres.res = ErrOf("Database")
    /\ fres.pulls = 1

\* C26: Query::execute drives the cursor to exhaustion, hands no row to the
\* caller or to a mapper, and returns the affected-row count; for a
\* statement with no result set it returns Ok(count) as well.
C26_Execute ==
    fres.op = "execute" =>
        /\ fres.mapped = <<>>
        /\ (\A i \in 1..Len(resultSet) : resultSet[i].ok) =>
              /\ fres.res = OkOf(fres.affected)
              /\ fres.pulls = Len(resultSet) + 1

\* a result set of two rows was drained, and 2 rows were affected
C26_Witness ==
    /\ fres.op = "execute"
    /\ Len(resultSet) = 2
    /\ resultSet[1].ok /\ resultSet[2].ok
    /\ fres.affected = 2
    /\ fres.res = OkOf(2)
    /\ fres.pulls = 3

\* a statement with no result set
C26_WitnessNoResult ==
    /\ fres.op = "execute"
    /\ resultSet = <<>>
    /\ fres.res = OkOf(fres.affected)

(***************************************************************************)
(* Claims about cursors on a connection (checked under ConnectSpec).       *)
(***************************************************************************)

\* C27: a cursor consumed to exhaustion leaves its connection ready for the
\* next command; a cursor dropped before exhaustion leaves the connection
\* invalid: not ready, and used by no further operation short of a close;
\* and at no time are two cursors open on the same connection.
C27_CursorAndConnection ==
    /\ cursors <= 1
    /\ hlast.step = "fetched" => (is_ready /\ cursors = 0)
    /\ hlast.step = "drop" => (~is_ready /\ cursors = 0)
    /\ (hpc \in {"connected", "panicked"} /\ ~is_ready /\ cursors = 0) =>
          /\ hlast.step = "drop"
          /\ Len(sent) = hlast.sentLen

(***************************************************************************)
(* Claims about Encode and Decode (checked under CodecSpec).               *)
(***************************************************************************)

\* C28: Option<T>::encode_nullable returns the null indicator exactly when
\* the value is None, and then leaves the buffer as it was; for Some(v) it
\* appends exactly the bytes T's encode appends for v and returns not-null.
C28_EncodeNullable ==
    cres.op = "encode_nullable" =>
        /\ (cres.is_null = "Yes") <=> (cres.input = None)
        /\ cres.is_null \in {"Yes", "No"}
        /\ cres.input = None => cbuf = cres.before
        /\ cres.input # None =>
              /\ cbuf = encode(cres.ty, CHOOSE v \in cres.input : TRUE,
                               cres.before)
              /\ cres.is_null = "No"

\* None was encoded into a buffer that already held a byte
C28_Witness ==
    /\ cres.op = "encode_nullable"
    /\ cres.input = None
    /\ cres.before = <<7>>
    /\ cbuf = <<7>>
    /\ cres.is_null = "Yes"

\* Some of a two-byte vector was appended behind the byte already there
C28_WitnessSome ==
    /\ cres.op = "encode_nullable"
    /\ cres.ty = "Vec<u8>"
    /\ cres.input = Some(<<1, 0>>)
    /\ cbuf = <<7, 1, 0>>
    /\ cres.is_null = "No"

\* C29: decoding a None raw value into a non-optional target type fails
\* with Decode(UnexpectedNull), for every such type, and decoding it into
\* an Option target yields None.
C29_DecodeNull ==
    (cres.op = "decode" /\ cres.input = None) =>
        cres.res = IF cres.optional THEN OkOf(None)
                   ELSE ErrOf("UnexpectedNull")

\* C30: for each supported scalar type, bool and byte vectors included,
\* decoding the binary raw value made of the bytes that encode appended for
\* v returns Ok(v).
C30_RoundTrip ==
    cres.op = "roundtrip" =>
        cres.res = OkOf(CHOOSE v \in cres.input : TRUE)

\* C31: size_hint is a lower bound: for every encodable value v, the hint
\* taken before v is encoded is at most the number of bytes that encode
\* appends for v.
C31_SizeHintLowerBound ==
    cres.op = "encode" => cres.res.value[1] <= Len(Appended)

(***************************************************************************)
(* Claims about the MySQL type ids (checked under TypeIdSpec).             *)
(***************************************************************************)

\* C32: every 8-bit type id formats as '<name> (0xNN)' where NN is exactly
\* two hexadecimal digits that spell the id; the name is the constant's name
\* for a defined constant and '<unknown>' for every other id.
C32_TypeIdDisplay ==
    shown.text # <<>> =>
        \E hi, lo \in 0..15 :
            /\ 16 * hi + lo = shown.id
            /\ shown.text =
                  <<IF \E c \in TypeIdConsts : c[1] = shown.id
                    THEN (CHOOSE c \in TypeIdConsts : c[1] = shown.id)[2]
                    ELSE "<unknown>",
                    " (0x", HexDigits[hi + 1], HexDigits[lo + 1], ")">>

(***************************************************************************)
(* Claims about the order and the content of the handshake's packets      *)
(* (checked under MySqlSpec).                                              *)
(***************************************************************************)

\* C33: between the server's Handshake and the client's HandshakeResponse
\* the only packet the client sends is the SSLRequest: under every plugin,
\* sha256_password on a non-TLS stream included, the HandshakeResponse is
\* the first packet that bears a credential and no public key request goes
\* out before it.
C33_HandshakePacketOrder ==
    \A j \in 1..Len(sent) :
        (\A k \in 1..j : sent[k].kind # "HandshakeResponse") =>
            sent[j].kind = "SSLRequest"

\* what a sent packet carries of the credentials: the auth response of a
\* HandshakeResponse, the payload of a bare packet
Credential(packet) ==
    IF packet.kind = "HandshakeResponse" THEN packet.auth_response
    ELSE IF packet.kind = "raw" THEN packet.body
    ELSE Bytes(<<>>)

\* C34: the NUL-terminated cleartext password is in an outgoing packet only
\* while the stream is TLS; on a non-TLS stream the only credentials that
\* leave are a scramble or an RSA-encrypted value (the known bytes sent are
\* the one-byte public key requests).
C34_PasswordConfidentiality ==
    \A j \in 1..Len(sent) :
        LET cred == Credential(sent[j])
        IN  /\ (/\ cred.form = "bytes"
                /\ cred.bytes = to_asciz(Password(url))) => isTls
            /\ (~isTls /\ sent[j].kind \in {"HandshakeResponse", "raw"}) =>
                  \/ cred.form \in {"scramble", "rsa"}
                  \/ /\ sent[j].kind = "raw"
                     /\ cred.form = "bytes"
                     /\ cred.bytes \in {<<1>>, <<2>>}

\* on TLS the password went out in clear in the HandshakeResponse
C34_Witness ==
    /\ isTls
    /\ Password(url) = PwBytes
    /\ \E j \in 1..Len(sent) :
          /\ sent[j].kind = "HandshakeResponse"
          /\ sent[j].auth_response = Bytes(to_asciz(PwBytes))

\* off TLS the password went out RSA-encrypted, after a scramble
C34_WitnessPlain ==
    /\ ~isTls
    /\ Password(url) = PwBytes
    /\ \E j, k \in 1..Len(sent) :
          /\ Credential(sent[j]).form = "scramble"
          /\ Credential(sent[k]).form = "rsa"

\* C35: once the Handshake has been read and for the rest of the handshake
\* (and of the connection), the capabilities contain PROTOCOL_41 and every
\* other capability in them is both in the set the server advertised and in
\* the set the client started with.
C35_CapabilityInvariant ==
    hpc \notin {"unused", "handshake"} =>
        /\ "PROTOCOL_41" \in capabilities
        /\ (capabilities \ {"PROTOCOL_41"}) \subseteq
              (handshake.server_capabilities \cap clientCaps)

\* the server advertised a capability the client does not have, and the
\* handshake got as far as the auth loop
C35_Witness ==
    /\ hpc = "loop"
    /\ Len(recvd) > 0
    /\ handshake.server_capabilities \ clientCaps # {}
    /\ clientCaps \ handshake.server_capabilities = {}
    /\ capabilities = clientCaps

\* the server did not advertise PROTOCOL_41, which is set all the same, and
\* the capabilities it lacks are gone
C35_WitnessDropped ==
    /\ hpc = "established"
    /\ "PROTOCOL_41" \notin handshake.server_capabilities
    /\ capabilities = {"PROTOCOL_41", "PLUGIN_AUTH"}

(***************************************************************************)
(* Claims about Map::fetch and bind_all (FetchSpec, QuerySpec) and about   *)
(* Option's size_hint (CodecSpec).                                         *)
(***************************************************************************)
\* the items fetch_all collects from the i-th row on, one by one and up to
\* the first error, the error included
RECURSIVE ItemsOfFetchAll(_, _, _)
ItemsOfFetchAll(items, fails, i) ==
    LET val == CursorNext(items, i)
    IN  IF val.status = "Err" THEN <<ErrOf(val.err)>>
        ELSE IF val.value[1] = None THEN <<>>
        ELSE LET m == map_row(CHOOSE r \in val.value[1] : TRUE, fails)
             IN  IF m.status = "Err" THEN <<m>>
                 ELSE <<m>> \o ItemsOfFetchAll(items, fails, i + 1)

\* C36: the stream of Map::fetch does no I/O before it is first polled and
\* one pull of the cursor for each poll; while it is open it has yielded the
\* first items fetch_all collects, and once it has ended it has yielded
\* exactly the items fetch_all collects for the same query, in the same
\* order, the first error being the last item.
C36_FetchAgreesWithFetchAll ==
    LET fa == fetch_all(resultSet, failsOn)
        its == ItemsOfFetchAll(resultSet, failsOn, 1)
    IN  /\ fres.op = "stream" =>
              /\ fres.pulls = Len(fres.yielded)
              /\ fres.pulls <= Len(its)
              /\ fres.yielded = SubSeq(its, 1, fres.pulls)
              /\ \A i \in 1..Len(fres.yielded) : fres.yielded[i].status = "Ok"
        /\ fres.op = "fetch" =>
              /\ fres.yielded = its
              /\ fres.pulls = fa.pulls
              /\ fres.mapped = fa.mapped
              /\ IF fa.res.status = "Ok"
                 THEN fres.yielded =
                         [i \in 1..Len(fa.res.value[1]) |->
                             OkOf(fa.res.value[1][i])]
                 ELSE /\ fres.yielded # <<>>
                      /\ fres.yielded[Len(fres.yielded)] = fa.res
                      /\ \A i \in 1..(Len(fres.yielded) - 1) :
                            fres.yielded[i].status = "Ok"

\* C37: bind_all replaces and does not append: after any sequence of bind
\* calls, bind_all(args) makes a query whose arguments are exactly args (what
\* was bound before is discarded) and whose SQL is the same; the query it
\* makes, and a Map of it, has no method that changes its arguments, and its
\* arguments stay what they are until an executor takes them.
C37_BindAllReplaces ==
    /\ iq # NoQuery =>
          /\ iq.query = Sql
          /\ iq.arguments = <<args>>
          /\ args.values = addCalls
          /\ Methods("ImmutableArguments") \cap {"bind", "bind_all"} = {}
          /\ MapMethods("ImmutableArguments") \cap {"bind", "bind_all"} = {}
    /\ parts.immutable # None =>
          parts.immutable = Some(<<Sql, Some(args)>>)

\* two values were bound, then bind_all was given a buffer that holds one
\* other value, and the query was handed to an executor
C37_Witness ==
    /\ bindCalls = <<1, 2>>
    /\ boundQuery.arguments.values = <<1, 2>>
    /\ addCalls = <<2>>
    /\ iq = [query |-> Sql, arguments |-> <<args>>]
    /\ args.values = <<2>>
    /\ parts.immutable # None

\* C38: size_hint of an Option terminates for every value; it returns 0
\* for None and what T's size_hint returns for Some(v).
C38_OptionSizeHint ==
    cres.op = "size_hint" =>
        cres.res = IF cres.input = None THEN OkOf(0)
                   ELSE OkOf(size_hint(cres.ty, CHOOSE v \in cres.input : TRUE))

====
